---- MODULE Spec2Model ----
(***************************************************************************)
(* Position orchestration of the funding-rate arbitrage trader:            *)
(* the ArbPosition rows, the OrderLog ledger, the dual-leg open flow        *)
(* (POST /arb/open), manual close (POST /arb/close) and the reduce-only     *)
(* close flow shared by the three background guards.                        *)
(***************************************************************************)
EXTENDS Integers, Sequences, FiniteSets, TLC

\* ------------------------------------------------------------------ bounds
MaxClock == 1        \* datetime.utcnow() ranges over 0..MaxClock
MaxSize == 1         \* the open size a venue reports for a position that is not flat
MaxPrice == 2        \* the best ask a venue quotes; its best bid is one below

\* The ArbPosition id the flows below work on.
Positions == {"p1"}
Venues == {"lighter", "grvt"}
Legs == {"left", "right"}

\* str(exc) of a venue failure; the empty string is an exception raised
\* without a message (asyncio.TimeoutError(), RuntimeError()).
Errors == {"", "rejected"}

\* The three guard loops started by lifespan(); each is one asyncio task.
Guards == {"auto_close", "funding_settlement", "liquidation_guard"}

Sides == {"buy", "sell"}

\* ArbOpenRequest.notional / ArbPosition.notional, in quote units.
Notionals == {10000}

\* liquidation_guard_threshold_pct when the request gives one, in percent.
RequestedThresholds == {57}

\* auto_close_after_ms when the request gives one: one step of the clock.
RequestedAutoCloseMs == {300000}

\* `request.liquidation_guard_threshold_pct or 50` / `task.threshold_pct or 50.0`
DefaultThresholdPct == 50

SETTLEMENT_GUARD_WINDOW_MINUTES == 5

VARIABLES
    now,           \* wall clock read by datetime.utcnow()
    pos,           \* committed arb_positions rows, by id
    order_logs,    \* committed order_logs rows of each position, in insert order
    risk_tasks,    \* committed risk_tasks rows of each position, by task type
    open_pc,       \* where the /arb/open handler of each position is
    open_req,      \* the ArbOpenRequest of each position
    open_ok,       \* place_for_venue's return value per leg ("none" until it returns)
    session_logs,  \* OrderLog rows added to the open handler's session, not yet committed
    venue_open,    \* open-leg orders that reached a venue
    close_resp,    \* last response of POST /arb/close, per position
    guard_pc,      \* where each guard loop is
    guard_queue,   \* positions the guard's current iteration still has to visit
    close_pos,     \* position the guard's close flow works on
    close_orders,  \* `orders` of the close flow
    close_results, \* `results` of the close flow, one per order
    close_result,  \* dict last returned by a close flow, and the guard it returned to
    venue_close,   \* close-flow orders that reached a venue
    liquidation_local, \* pnl_ratio_pct and threshold_pct in the liquidation guard's frame
    close_seen,    \* what the venues reported to the close flow under observation
    guard_seen,    \* what a guard read when it last decided, under observation
    order_book_state, \* _run_lighter_ws_loop's retained asks and bids
    ws_message,    \* the order-book message the Lighter loop handled last
    emitted,       \* the VenueOrderBook the Lighter loop yielded last
    stream_pc,     \* where each venue's order-book stream is: connected or in its sleep
    backoff,       \* `backoff` of each venue's order-book stream, in half seconds
    slept,         \* the delay before the stream's latest reconnect attempt, in half seconds
    attempts,      \* reconnect attempts of the stream since its last book message
    venue_requests, \* the venue requests the latest get_perp_snapshot call issued, in order
    perp_result,   \* what the latest get_perp_snapshot call fetched and returned
    perp_served,   \* the pair the latest get_perp_snapshot call served, and when
    response_cache, \* _prediction_cache and _arbitrage_cache: (time(), response) per key
    calls,         \* the snapshot requests in flight, one per caller
    computed,      \* responses computed so far; each computation builds a new one
    job,           \* the entry of _prediction_job_store for the job under observation
    runner, \* the progress callbacks the job's _runner still has to make
    polled,        \* the last response of GET /funding-prediction/jobs/{job_id}
    raw_entries,   \* get_funding_prediction_snapshot: entries appended by _compute_row
    failures,      \* get_funding_prediction_snapshot: failures appended by _compute_row
    prediction,    \* how the prediction batch ended, and its response
    fn_input,      \* the arguments of the function under check
    fn_output,     \* its result, None before it is applied
    users,         \* the User rows by username
    admin_response \* the last response of an admin user endpoint

dbVars == <<pos, order_logs, risk_tasks>>
openVars == <<open_pc, open_req, open_ok, session_logs, venue_open>>
guardVars == <<guard_pc, guard_queue, close_pos, close_orders, close_results,
               close_result, venue_close, liquidation_local, close_seen, guard_seen>>
bookVars == <<order_book_state, ws_message, emitted>>
streamVars == <<stream_pc, backoff, slept, attempts>>
marketVars == <<venue_requests, perp_result, perp_served>>
cacheVars == <<response_cache, calls, computed>>
jobVars == <<job, runner, polled>>
batchVars == <<raw_entries, failures, prediction>>
pureVars == <<fn_input, fn_output>>
adminVars == <<users, admin_response>>
extraVars == <<jobVars, batchVars, pureVars, adminVars>>
svcVars == <<bookVars, streamVars, marketVars, cacheVars, extraVars>>
vars == <<now, pos, order_logs, risk_tasks, open_pc, open_req, open_ok,
          session_logs, venue_open, close_resp, guard_pc, guard_queue, close_pos,
          close_orders, close_results, close_result, venue_close,
          liquidation_local, close_seen, guard_seen, svcVars>>

\* Optional[datetime]: <<>> is None, <<t>> is a value.
None == <<>>
Some(t) == <<t>>

NoRow == [status |-> "none", closed_at |-> None, updated_at |-> None,
          left_side |-> "buy", right_side |-> "sell", notional |-> 0]

\* A committed ArbPosition row in the given status, stamped at time t.
Row(status, t, left_side, right_side, notional) ==
    [status |-> status, closed_at |-> None, updated_at |-> Some(t),
     left_side |-> left_side, right_side |-> right_side, notional |-> notional]

NoRequest == [left_venue |-> "lighter", right_venue |-> "lighter",
              left_side |-> "buy", right_side |-> "sell", notional |-> 0,
              liquidation_guard_enabled |-> FALSE,
              liquidation_guard_threshold_pct |-> None,
              auto_close_after_ms |-> None]

\* The ArbOpenRequest bodies POST /arb/open is called with.
OpenRequests(venues, left_sides, thresholds, auto_close_delays) ==
    [left_venue : venues, right_venue : venues,
     left_side : left_sides, right_side : {"sell"}, notional : Notionals,
     liquidation_guard_enabled : BOOLEAN,
     liquidation_guard_threshold_pct : thresholds,
     auto_close_after_ms : auto_close_delays]

NoResponse == [status |-> "none"]

NoTask == [status |-> "none", trigger_reason |-> "", enabled |-> FALSE,
           threshold_pct |-> None, execute_at |-> None]

PendingTask == [status |-> "pending", trigger_reason |-> "", enabled |-> TRUE,
                threshold_pct |-> None, execute_at |-> None]

NoLocal == [pnl_ratio_pct |-> 0, threshold_pct |-> 0]

NoResult == [guard |-> "none", failed_reasons |-> <<>>, closed |-> FALSE]

\* The dict returned by _close_position_with_reduce_only_orders.
Result(failed_reasons, closed) == [failed_reasons |-> failed_reasons, closed |-> closed]

\* The market-data services before any stream is opened.
InitBook ==
    /\ order_book_state = [asks |-> <<>>, bids |-> <<>>]
    /\ ws_message = None
    /\ emitted = None

\* `backoff = 1.0` (lighter_service.py:333) and `backoff = 0.5`
\* (grvt_service.py:123), in half seconds.
InitialBackoff(venue) == IF venue = "lighter" THEN 2 ELSE 1

InitStream ==
    /\ stream_pc = [v \in Venues |-> "connected"]
    /\ backoff = [v \in Venues |-> InitialBackoff(v)]
    /\ slept = [v \in Venues |-> 0]
    /\ attempts = [v \in Venues |-> 0]

\* No get_perp_snapshot call made yet.
InitMarket ==
    /\ venue_requests = <<>>
    /\ perp_result = None
    /\ perp_served = None

\* The two response caches of MarketDataService.
Kinds == {"prediction", "arbitrage"}

\* cache_key = (primary, secondary, float(volume_threshold))
CacheKeys == {<<"lighter", "grvt", 0>>, <<"lighter", "grvt", 1000>>}

\* The coroutines that call the snapshot methods concurrently.
Callers == {"c1", "c2"}

NoCall == [pc |-> "idle", kind |-> "prediction", key |-> <<"lighter", "grvt", 0>>,
           force_refresh |-> FALSE, returned |-> None, recomputed |-> FALSE]

\* `self._arbitrage_cache = {}` and `self._prediction_cache = {}`
InitCache ==
    /\ response_cache = [kind \in Kinds |-> [key \in CacheKeys |-> None]]
    /\ calls = [c \in Callers |-> NoCall]
    /\ computed = 0

\* No _runner task exists.
NoRunner ==
    [pc |-> "none", index |-> 0, eligible |-> {}, rows |-> {}, completed_rows |-> 0, total_rows |-> 1]

\* `_prediction_job_store = {}`: no job created yet.
InitJobs ==
    /\ job = None
    /\ runner = NoRunner
    /\ polled = None

\* No batch has run.
NoPrediction == [status |-> "none", entries |-> {}, failures |-> {}]

InitBatch ==
    /\ raw_entries = {}
    /\ failures = {}
    /\ prediction = NoPrediction

\* No function is under check.
InitPure ==
    /\ fn_input = None
    /\ fn_output = None

\* No user and no admin request yet.
InitUsers ==
    /\ users = <<>>
    /\ admin_response = None

InitExtra == InitJobs /\ InitBatch /\ InitPure /\ InitUsers

InitServices == InitBook /\ InitStream /\ InitMarket /\ InitCache /\ InitExtra

\* An empty database, the guard loops asleep, and the request body the
\* client is about to post for each position.
Init ==
    /\ now = 0
    /\ pos = [p \in Positions |-> NoRow]
    /\ order_logs = [p \in Positions |-> <<>>]
    /\ risk_tasks = [p \in Positions |-> [auto_close |-> NoTask, liquidation_guard |-> NoTask]]
    /\ open_pc = [p \in Positions |-> "idle"]
    /\ open_req \in [Positions -> OpenRequests(Venues, {"buy"}, {None}, {None})]
    /\ open_ok = [p \in Positions |-> [l \in Legs |-> "none"]]
    /\ session_logs = [p \in Positions |-> <<>>]
    /\ venue_open = {}
    /\ close_resp = [p \in Positions |-> NoResponse]
    /\ guard_pc = [g \in Guards |-> "sleeping"]
    /\ guard_queue = [g \in Guards |-> {}]
    /\ close_pos = [g \in Guards |-> CHOOSE p \in Positions : TRUE]
    /\ close_orders = [g \in Guards |-> <<>>]
    /\ close_results = [g \in Guards |-> <<>>]
    /\ close_result = NoResult
    /\ venue_close = {}
    /\ liquidation_local = NoLocal
    /\ close_seen = None
    /\ guard_seen = None
    /\ InitServices

\* Time passes between any two steps.
Tick ==
    /\ now < MaxClock
    /\ now' = now + 1
    /\ UNCHANGED <<dbVars, openVars, close_resp, guardVars>>
    /\ UNCHANGED svcVars

\* ------------------------------------------------------------ open flow

\* The task created with the request's threshold as it is, None included.
LiquidationGuardTask_nodefault(requested_threshold_pct) ==
    [PendingTask EXCEPT !.threshold_pct = requested_threshold_pct]

\* arb_service.py lines 42-53: the liquidation_guard task of a new position;
\* a request without a threshold gets the default.
LiquidationGuardTask(requested_threshold_pct) ==
    [PendingTask EXCEPT !.threshold_pct =
        IF requested_threshold_pct = None THEN Some(DefaultThresholdPct)
        ELSE requested_threshold_pct]

\* ArbService.open_position: the row is committed with status pending,
\* together with the requested liquidation_guard task, before any leg is placed.
open_position(p) ==
    /\ open_pc[p] = "idle"
    /\ LET request == open_req[p] IN
         /\ pos' = [pos EXCEPT ![p] =
                      Row("pending", now, request.left_side, request.right_side,
                          request.notional)]
         /\ risk_tasks' = [risk_tasks EXCEPT ![p].liquidation_guard =
                              IF request.liquidation_guard_enabled
                              THEN LiquidationGuardTask(request.liquidation_guard_threshold_pct)
                              ELSE @]
    /\ open_pc' = [open_pc EXCEPT ![p] = "created"]
    /\ UNCHANGED <<now, order_logs, open_req, open_ok, session_logs, venue_open,
                   close_resp, guardVars>>
    /\ UNCHANGED svcVars

\* _get_lighter_credentials / _get_grvt_credentials in open_arb_position:
\* a missing profile or credential raises HTTPException and the handler ends.
open_get_credentials(p) ==
    /\ open_pc[p] = "created"
    /\ \E found \in BOOLEAN :
         open_pc' = [open_pc EXCEPT ![p] = IF found THEN "placing" ELSE "aborted"]
    /\ UNCHANGED <<now, dbVars, open_req, open_ok, session_logs, venue_open,
                   close_resp, guardVars>>
    /\ UNCHANGED svcVars

\* models.py GrvtOrderRequest: order_duration_secs is an int field
\* (default 10, 1..3600); an explicit None does not validate.
GrvtOrderRequestValid(order_duration_secs) ==
    /\ order_duration_secs # None
    /\ order_duration_secs[1] >= 1
    /\ order_duration_secs[1] <= 3600

\* Whether the request object of a leg can be built: both flows pass
\* order_duration_secs=None to GrvtOrderRequest; the Lighter request gets
\* positive amount and price.
OrderRequestValid(venue) ==
    IF venue = "lighter" THEN TRUE ELSE GrvtOrderRequestValid(None)

OpenLegVenue(p, leg) ==
    IF leg = "left" THEN open_req[p].left_venue ELSE open_req[p].right_venue

\* _record_order: one OrderLog row added to the handler's session.
record_order(p, leg, venue, status_value, error) ==
    session_logs' = [session_logs EXCEPT ![p] =
        Append(@, [leg |-> leg, venue |-> venue, reduce_only |-> FALSE,
                   status |-> status_value, error |-> error])]

\* The except branch without its _record_order call.
place_for_venue_failed_norecord(p, leg, venue, error) ==
    /\ open_ok' = [open_ok EXCEPT ![p][leg] = "false"]
    /\ UNCHANGED session_logs

\* place_for_venue, except branch: the failed attempt is recorded with
\* the error string and the leg returns False.
place_for_venue_failed(p, leg, venue, error) ==
    /\ record_order(p, leg, venue, "failed", error)
    /\ open_ok' = [open_ok EXCEPT ![p][leg] = "false"]

\* place_for_venue: build the venue request, place it, record the outcome.
place_for_venue(p, leg) ==
    /\ open_pc[p] = "placing"
    /\ open_ok[p][leg] = "none"
    /\ LET venue == OpenLegVenue(p, leg) IN
         IF OrderRequestValid(venue)
         THEN \/ /\ record_order(p, leg, venue, "accepted", "")
                 /\ open_ok' = [open_ok EXCEPT ![p][leg] = "true"]
                 /\ venue_open' = venue_open \cup
                       {[pos |-> p, leg |-> leg, venue |-> venue, placed |-> TRUE, error |-> ""]}
              \/ \E e \in Errors :
                 /\ place_for_venue_failed(p, leg, venue, e)
                 /\ venue_open' = venue_open \cup
                       {[pos |-> p, leg |-> leg, venue |-> venue, placed |-> FALSE, error |-> e]}
         ELSE /\ place_for_venue_failed(p, leg, venue, "validation error")
              /\ UNCHANGED venue_open
    /\ UNCHANGED <<now, dbVars, open_pc, open_req, close_resp, guardVars>>
    /\ UNCHANGED svcVars

\* The status derivation with the right leg forgotten in the second test.
OpenFinalStatus_leftonly(left_ok, right_ok) ==
    IF left_ok /\ right_ok THEN "pending"
    ELSE IF left_ok THEN "partially_filled"
    ELSE "failed"

\* open_arb_position lines 1017-1022: final status from the two results.
OpenFinalStatus(left_ok, right_ok) ==
    IF left_ok /\ right_ok THEN "pending"
    ELSE IF left_ok \/ right_ok THEN "partially_filled"
    ELSE "failed"

\* open_arb_position after asyncio.gather: status and the session's
\* OrderLog rows are committed together.
open_commit(p) ==
    /\ open_pc[p] = "placing"
    /\ \A l \in Legs : open_ok[p][l] # "none"
    /\ pos' = [pos EXCEPT ![p].status =
                   OpenFinalStatus(open_ok[p]["left"] = "true", open_ok[p]["right"] = "true"),
               ![p].updated_at = Some(now)]
    /\ order_logs' = [order_logs EXCEPT ![p] = @ \o session_logs[p]]
    /\ session_logs' = [session_logs EXCEPT ![p] = <<>>]
    /\ open_pc' = [open_pc EXCEPT ![p] = "done"]
    /\ UNCHANGED <<now, risk_tasks, open_req, open_ok, venue_open, close_resp, guardVars>>
    /\ UNCHANGED svcVars

\* --------------------------------------------------------- manual close

\* close_arb_position -> ArbService.close_position.
close_position(p) ==
    /\ IF pos[p].status = "none"
       THEN /\ close_resp' = [close_resp EXCEPT ![p] = [status |-> "arb_position not found"]]
            /\ UNCHANGED pos
       ELSE /\ pos' = [pos EXCEPT ![p].status = "closed",
                                  ![p].closed_at = Some(now),
                                  ![p].updated_at = Some(now)]
            /\ close_resp' = [close_resp EXCEPT ![p] = [status |-> "closed"]]
    /\ UNCHANGED <<now, order_logs, risk_tasks, openVars, guardVars>>
    /\ UNCHANGED svcVars

\* ------------------------------------------------------------ close flow

ActiveStatuses == {"pending", "partially_filled", "hedged"}

Abs(x) == IF x < 0 THEN 0 - x ELSE x

\* What the two venues report when the close flow re-fetches balances and
\* best prices.  Lighter's account endpoint reports a position as a
\* magnitude (`position`) with its direction in `sign`
\* (LighterPositionBalance carries both); GRVT reports a signed `size`.
\* A price of 0 stands for None / 0.0: no price on that side of the book.
Quotes ==
    [bid : {0, MaxPrice - 1}, ask : {0, MaxPrice}]

Snapshots ==
    [lighter_sign : {0 - 1, 1}, lighter_position : {0, MaxSize},
     grvt_size : {0 - MaxSize, 0, MaxSize}, lighter_quote : Quotes, grvt_quote : Quotes]

\* LighterService.get_best_prices(symbol, depth) -> (bid, ask), either of
\* which may be missing.
get_best_prices(snap) == snap.lighter_quote

\* GrvtService.get_best_prices_with_credentials: (best_bid or None, best_ask or None).
get_best_prices_with_credentials(snap) == snap.grvt_quote

\* Lines 316 / 334: side of the unwind order from the reported amount.
CloseSide(amount) == IF amount >= 0 THEN "sell" ELSE "buy"

\* Lines 317 / 335: price of the unwind order.
ClosePrice(side, quote) == IF side = "buy" THEN quote.bid ELSE quote.ask

\* One entry of `orders`: the venue and the request payload.
CloseOrder(venue, amount, quote) ==
    [venue |-> venue, side |-> CloseSide(amount), size |-> Abs(amount),
     price |-> ClosePrice(CloseSide(amount), quote), reduce_only |-> TRUE]

\* The leg test without the `if price:` check.
WantsLeg_noprice(amount, quote) == Abs(amount) > 0

\* Lines 315-318 / 333-336: a venue gets a leg when its open size is
\* non-zero and the chosen price is truthy.
WantsLeg(amount, quote) ==
    /\ Abs(amount) > 0
    /\ ClosePrice(CloseSide(amount), quote) # 0

LighterOrders(snap) ==
    IF WantsLeg(snap.lighter_position, get_best_prices(snap))
    THEN <<CloseOrder("lighter", snap.lighter_position, get_best_prices(snap))>>
    ELSE <<>>

GrvtOrders(snap) ==
    IF WantsLeg(snap.grvt_size, get_best_prices_with_credentials(snap))
    THEN <<CloseOrder("grvt", snap.grvt_size, get_best_prices_with_credentials(snap))>>
    ELSE <<>>

\* Lines 314-351: the list of (venue, payload) the flow will place.
BuildOrders(snap) == LighterOrders(snap) \o GrvtOrders(snap)

\* Building an entry constructs its request model (lines 322, 340), outside
\* any try block: an invalid request raises out of the close flow.
BuildRaises(snap) ==
    \E i \in 1..Len(BuildOrders(snap)) : ~OrderRequestValid(BuildOrders(snap)[i].venue)

NotPlaced == [done |-> FALSE, ok |-> FALSE, err |-> ""]

\* Line 379: f"{venue}: {err}" for every result that is not ok and has a
\* truthy err.
IsReportedFailure(r) == ~r.ok /\ r.err # ""

RECURSIVE FailedReasonsFrom(_, _, _)
FailedReasonsFrom(orders, results, i) ==
    IF i > Len(orders) THEN <<>>
    ELSE (IF IsReportedFailure(results[i])
          THEN <<orders[i].venue \o ": " \o results[i].err>>
          ELSE <<>>) \o FailedReasonsFrom(orders, results, i + 1)

FailedReasons(orders, results) == FailedReasonsFrom(orders, results, 1)

\* " | ".join(failed_reasons)
RECURSIVE JoinReasons(_)
JoinReasons(reasons) ==
    IF Len(reasons) = 0 THEN ""
    ELSE IF Len(reasons) = 1 THEN reasons[1]
    ELSE reasons[1] \o " | " \o JoinReasons(Tail(reasons))

\* ---------------------------------------------------------------- guards

\* A guard's write of status and trigger_reason to a RiskTask row.
TaskWritten(task, status_value, reason) ==
    [task EXCEPT !.status = status_value, !.trigger_reason = reason]

\* f"{x:.2f}" of a percentage kept in hundredths of a percent.
Fmt2(h) ==
    ToString(h \div 100) \o "." \o (IF h % 100 < 10 THEN "0" ELSE "") \o ToString(h % 100)

\* Line 575: abs(net_unrealized) / position.notional * 100.0, in hundredths
\* of a percent.
PnlRatioPct(net_unrealized, notional) == (Abs(net_unrealized) * 10000) \div notional

\* The whole percentages k up to 100 for which k/100*100.0, evaluated in
\* binary floating point as line 575 evaluates it, comes out below k
\* (0.57*100.0 is 56.99999999999999).
FloatRoundsBelow == {29, 57, 58}

\* Line 577: pnl_ratio_pct < threshold_pct, on the float the code holds.
RatioBelowThreshold(h, threshold_pct) ==
    \/ h < threshold_pct * 100
    \/ h = threshold_pct * 100 /\ threshold_pct \in FloatRoundsBelow

\* Line 521: float(task.threshold_pct or 50.0)
TaskThresholdPct(task) ==
    IF task.threshold_pct = None THEN DefaultThresholdPct ELSE task.threshold_pct[1]

\* Lines 595-597: the trigger reason of the liquidation guard.
LiquidationReason(pnl_ratio_pct, threshold_pct) ==
    "unrealized pnl ratio " \o Fmt2(pnl_ratio_pct) \o "% reached threshold "
        \o Fmt2(threshold_pct * 100) \o "%"

\* What each guard does with the dict its close flow returned, in the same
\* step in which the flow returns:
\*   _execute_auto_close_task lines 201-213, funding_settlement_guard_worker
\*   lines 469-482, liquidation_guard_worker lines 582-600.
TaskAfterClose(g, task, result) ==
    IF g = "auto_close" /\ task.auto_close.status # "none"
    THEN [task EXCEPT !.auto_close =
            IF Len(result.failed_reasons) > 0
            THEN TaskWritten(@, "failed", JoinReasons(result.failed_reasons))
            ELSE TaskWritten(@, "triggered", "auto close orders placed")]
    ELSE IF g = "liquidation_guard" /\ Len(result.failed_reasons) = 0
            /\ task.liquidation_guard.status = "pending"
    THEN [task EXCEPT !.liquidation_guard =
            TaskWritten(@, "triggered",
                        LiquidationReason(liquidation_local.pnl_ratio_pct,
                                          liquidation_local.threshold_pct))]
    ELSE task

\* A guard with nothing left to visit is back in asyncio.sleep.
NextPc(queue) == IF queue = {} THEN "sleeping" ELSE "iterating"

\* Guard g is done with one position without entering the close flow.
guard_continue(g, queue) ==
    /\ guard_pc' = [guard_pc EXCEPT ![g] = NextPc(queue)]
    /\ UNCHANGED <<close_pos, close_orders, close_results, close_result, close_seen>>

\* The close flow of guard g on position p returns `result`; the guard
\* handles it and goes on with its iteration.
close_returns(g, p, result, queue) ==
    /\ close_result' = [guard |-> g, failed_reasons |-> result.failed_reasons,
                        closed |-> result.closed]
    /\ risk_tasks' = [risk_tasks EXCEPT ![p] = TaskAfterClose(g, @, result)]
    /\ guard_pc' = [guard_pc EXCEPT ![g] = NextPc(queue)]
    /\ close_orders' = [close_orders EXCEPT ![g] = <<>>]
    /\ close_results' = [close_results EXCEPT ![g] = <<>>]

\* The close flow behind a per-position lock: a second flow on a position
\* another guard is closing returns at once.
close_begin_exclusive(g, p, queue) ==
    /\ close_pos' = [close_pos EXCEPT ![g] = p]
    /\ close_seen' = None
    /\ IF \/ pos[p].status \in {"none", "closed", "failed"}
          \/ \E other \in Guards \ {g} :
                guard_pc[other] \in {"closing", "placing"} /\ close_pos[other] = p
       THEN close_returns(g, p, Result(<<"position inactive">>, FALSE), queue)
       ELSE /\ guard_pc' = [guard_pc EXCEPT ![g] = "closing"]
            /\ UNCHANGED <<risk_tasks, close_orders, close_results, close_result>>

\* _close_position_with_reduce_only_orders lines 259-284, entered by guard g
\* for position p: the status check, then the first venue call is awaited.
close_begin(g, p, queue) ==
    /\ close_pos' = [close_pos EXCEPT ![g] = p]
    /\ close_seen' = None
    /\ IF pos[p].status = "none"
       THEN close_returns(g, p, Result(<<"position not found">>, FALSE), queue)
       ELSE IF pos[p].status \in {"closed", "failed"}
       THEN close_returns(g, p, Result(<<"position inactive">>, FALSE), queue)
       ELSE \E user_found \in BOOLEAN :
              IF ~user_found
              THEN close_returns(g, p, Result(<<"user not found">>, FALSE), queue)
              ELSE /\ guard_pc' = [guard_pc EXCEPT ![g] = "closing"]
                   /\ UNCHANGED <<risk_tasks, close_orders, close_results, close_result>>

\* auto_close_worker lines 221-229: the enabled pending auto_close tasks
\* whose execute_at has passed.
DueAutoCloseTasks ==
    {p \in Positions :
        LET task == risk_tasks[p].auto_close IN
        /\ task.enabled
        /\ task.status = "pending"
        /\ task.execute_at # None
        /\ task.execute_at[1] <= now}

auto_close_select ==
    /\ guard_pc["auto_close"] = "sleeping"
    /\ DueAutoCloseTasks # {}
    /\ guard_queue' = [guard_queue EXCEPT !["auto_close"] = DueAutoCloseTasks]
    /\ guard_pc' = [guard_pc EXCEPT !["auto_close"] = "iterating"]
    /\ UNCHANGED <<now, dbVars, openVars, close_resp, close_pos, close_orders,
                   close_results, close_result, venue_close, close_seen,
                   liquidation_local, guard_seen>>
    /\ UNCHANGED svcVars

\* The user-not-found branch falling through into the close flow.
auto_close_user_not_found_noreturn(p, queue) ==
    /\ risk_tasks' = [risk_tasks EXCEPT ![p].auto_close =
          TaskWritten(@, "failed", "user not found")]
    /\ guard_pc' = [guard_pc EXCEPT !["auto_close"] = "closing"]
    /\ close_pos' = [close_pos EXCEPT !["auto_close"] = p]
    /\ close_seen' = None
    /\ UNCHANGED <<close_orders, close_results, close_result>>

\* _execute_auto_close_task lines 190-197: the position's user is gone.
auto_close_user_not_found(p, queue) ==
    /\ risk_tasks' = [risk_tasks EXCEPT ![p].auto_close =
          TaskWritten(@, "failed", "user not found")]
    /\ guard_continue("auto_close", queue)

\* _execute_auto_close_task lines 176-199 for the task of position p.
execute_auto_close_task(p) ==
    /\ guard_pc["auto_close"] = "iterating"
    /\ p \in guard_queue["auto_close"]
    /\ guard_queue' = [guard_queue EXCEPT !["auto_close"] = @ \ {p}]
    /\ LET queue == guard_queue["auto_close"] \ {p} IN
       IF risk_tasks[p].auto_close.status # "pending"
       THEN /\ guard_continue("auto_close", queue)
            /\ UNCHANGED risk_tasks
       ELSE IF pos[p].status \in {"none", "closed", "failed"}
       THEN /\ risk_tasks' = [risk_tasks EXCEPT ![p].auto_close =
                   TaskWritten(@, "canceled", "position inactive")]
            /\ guard_continue("auto_close", queue)
       ELSE \/ auto_close_user_not_found(p, queue)
            \/ close_begin("auto_close", p, queue)
    /\ UNCHANGED <<now, pos, order_logs, openVars, close_resp, venue_close,
                   liquidation_local, guard_seen>>
    /\ UNCHANGED svcVars

\* The minute of the hour at time t: the clock starts when the settlement
\* window opens and one tick is the length of the window.
Minute(t) ==
    ((60 - SETTLEMENT_GUARD_WINDOW_MINUTES) + SETTLEMENT_GUARD_WINDOW_MINUTES * t) % 60

\* _is_settlement_guard_window
is_settlement_guard_window(t) == Minute(t) >= 60 - SETTLEMENT_GUARD_WINDOW_MINUTES

\* _funding_sign_for_side
funding_sign_for_side(side) ==
    IF side = "buy" THEN 0 - 1 ELSE IF side = "sell" THEN 1 ELSE 0

\* funding_by_symbol.get(symbol_key): None when the snapshot has no row
\* for the symbol, else the (left, right) funding rates in percent, either
\* of which may be None.
FundingRates ==
    {None} \cup {Some(r) : r \in [left_rate : {None, Some(0 - 1), Some(2)},
                                  right_rate : {None, Some(1)}]}

\* Lines 459-463: expected_hourly_pnl, times 100.
ExpectedHourlyPnl(position, left_rate, right_rate) ==
    position.notional * (funding_sign_for_side(position.left_side) * left_rate
                         + funding_sign_for_side(position.right_side) * right_rate)

\* Lines 453-465: the position is passed over.
FundingSkips(position, rates) ==
    \/ rates = None
    \/ rates[1].left_rate = None
    \/ rates[1].right_rate = None
    \/ ExpectedHourlyPnl(position, rates[1].left_rate[1], rates[1].right_rate[1]) > 0

\* funding_settlement_guard_worker lines 405-418: the active positions.
ActivePositions == {p \in Positions : pos[p].status \in ActiveStatuses}

\* funding_settlement_guard_worker lines 399-426: an iteration starts only
\* inside the settlement window and only with active positions.
funding_settlement_select ==
    /\ guard_pc["funding_settlement"] = "sleeping"
    /\ is_settlement_guard_window(now)
    /\ ActivePositions # {}
    /\ guard_queue' = [guard_queue EXCEPT !["funding_settlement"] = ActivePositions]
    /\ guard_pc' = [guard_pc EXCEPT !["funding_settlement"] = "iterating"]
    /\ UNCHANGED <<now, dbVars, openVars, close_resp, close_pos, close_orders,
                   close_results, close_result, venue_close, close_seen,
                   liquidation_local, guard_seen>>
    /\ UNCHANGED svcVars

\* Lines 428-465: the market snapshot failed, or the position is skipped.
funding_settlement_skips(p, queue) ==
    /\ guard_continue("funding_settlement", queue)
    /\ UNCHANGED risk_tasks

\* Line 467: the close flow is entered.
funding_settlement_closes(p, queue) == close_begin("funding_settlement", p, queue)

\* What the guard read when it decided, and whether it called the close flow.
FundingSeen(p, rates, invoked) ==
    Some([guard |-> "funding_settlement", at |-> now, status |-> pos[p].status,
          position |-> pos[p], rates |-> rates, invoked |-> invoked])

\* funding_settlement_guard_worker lines 427-482 for one selected position;
\* the position row is the one the iteration read, of which side and
\* notional never change.
funding_settlement_evaluate(p) ==
    /\ guard_pc["funding_settlement"] = "iterating"
    /\ p \in guard_queue["funding_settlement"]
    /\ guard_queue' = [guard_queue EXCEPT !["funding_settlement"] = @ \ {p}]
    /\ LET queue == guard_queue["funding_settlement"] \ {p} IN
       \/ funding_settlement_skips(p, queue)
       \/ \E rates \in FundingRates :
            IF FundingSkips(pos[p], rates)
            THEN funding_settlement_skips(p, queue)
            ELSE funding_settlement_closes(p, queue)
    /\ UNCHANGED <<now, pos, order_logs, openVars, close_resp, venue_close,
                   liquidation_local, guard_seen>>
    /\ UNCHANGED svcVars

\* The same step, with what the guard read kept in guard_seen.
funding_settlement_evaluate_observed(p) ==
    /\ guard_pc["funding_settlement"] = "iterating"
    /\ p \in guard_queue["funding_settlement"]
    /\ guard_queue' = [guard_queue EXCEPT !["funding_settlement"] = @ \ {p}]
    /\ LET queue == guard_queue["funding_settlement"] \ {p} IN
       \/ /\ funding_settlement_skips(p, queue)
          /\ UNCHANGED guard_seen
       \/ \E rates \in FundingRates :
            IF FundingSkips(pos[p], rates)
            THEN /\ funding_settlement_skips(p, queue)
                 /\ guard_seen' = FundingSeen(p, rates, FALSE)
            ELSE /\ funding_settlement_closes(p, queue)
                 /\ guard_seen' = FundingSeen(p, rates, TRUE)
    /\ UNCHANGED <<now, pos, order_logs, openVars, close_resp, venue_close,
                   liquidation_local>>
    /\ UNCHANGED svcVars

\* liquidation_guard_worker lines 489-513: the active positions that have
\* an enabled pending liquidation_guard task.
GuardedPositions ==
    {p \in ActivePositions :
        /\ risk_tasks[p].liquidation_guard.enabled
        /\ risk_tasks[p].liquidation_guard.status = "pending"}

liquidation_guard_select ==
    /\ guard_pc["liquidation_guard"] = "sleeping"
    /\ GuardedPositions # {}
    /\ guard_queue' = [guard_queue EXCEPT !["liquidation_guard"] = GuardedPositions]
    /\ guard_pc' = [guard_pc EXCEPT !["liquidation_guard"] = "iterating"]
    /\ UNCHANGED <<now, dbVars, openVars, close_resp, close_pos, close_orders,
                   close_results, close_result, venue_close, close_seen,
                   liquidation_local, guard_seen>>
    /\ UNCHANGED svcVars

\* The unrealized PnL the two venues report for the position's symbol.
PnlReports == [lighter_unrealized : {0 - 5200, 0, 5200}, grvt_unrealized : {0 - 500, 0}]

\* Lines 572-575.
ReportedRatioPct(p, report) ==
    PnlRatioPct(report.lighter_unrealized + report.grvt_unrealized, pos[p].notional)

\* Lines 522-523 and 577-578: no close for this task.
LiquidationSkips(p, report) ==
    \/ pos[p].notional <= 0
    \/ RatioBelowThreshold(ReportedRatioPct(p, report),
                           TaskThresholdPct(risk_tasks[p].liquidation_guard))

\* Lines 525-550 and 577-578: the user is gone, the balances could not be
\* fetched, or the ratio is under the threshold.
liquidation_guard_skips(p, queue) ==
    /\ guard_continue("liquidation_guard", queue)
    /\ UNCHANGED <<risk_tasks, liquidation_local>>

\* Line 580: the close flow is entered, pnl_ratio_pct and threshold_pct
\* staying in the guard's frame for the trigger reason.
liquidation_guard_closes(p, queue, report) ==
    /\ liquidation_local' =
          [pnl_ratio_pct |-> ReportedRatioPct(p, report),
           threshold_pct |-> TaskThresholdPct(risk_tasks[p].liquidation_guard)]
    /\ close_begin("liquidation_guard", p, queue)

LiquidationSeen(p, report, invoked) ==
    Some([guard |-> "liquidation_guard", at |-> now, status |-> pos[p].status,
          position |-> pos[p], task |-> risk_tasks[p].liquidation_guard,
          report |-> report, invoked |-> invoked])

\* liquidation_guard_worker lines 516-600 for one selected task; threshold
\* and notional are those the iteration read, and never change.
liquidation_guard_evaluate(p) ==
    /\ guard_pc["liquidation_guard"] = "iterating"
    /\ p \in guard_queue["liquidation_guard"]
    /\ guard_queue' = [guard_queue EXCEPT !["liquidation_guard"] = @ \ {p}]
    /\ LET queue == guard_queue["liquidation_guard"] \ {p} IN
       \/ liquidation_guard_skips(p, queue)
       \/ \E report \in PnlReports :
            IF LiquidationSkips(p, report)
            THEN liquidation_guard_skips(p, queue)
            ELSE liquidation_guard_closes(p, queue, report)
    /\ UNCHANGED <<now, pos, order_logs, openVars, close_resp, venue_close, guard_seen>>
    /\ UNCHANGED svcVars

\* The same step, with what the guard read kept in guard_seen.
liquidation_guard_evaluate_observed(p) ==
    /\ guard_pc["liquidation_guard"] = "iterating"
    /\ p \in guard_queue["liquidation_guard"]
    /\ guard_queue' = [guard_queue EXCEPT !["liquidation_guard"] = @ \ {p}]
    /\ LET queue == guard_queue["liquidation_guard"] \ {p} IN
       \/ /\ liquidation_guard_skips(p, queue)
          /\ UNCHANGED guard_seen
       \/ \E report \in PnlReports :
            IF LiquidationSkips(p, report)
            THEN /\ liquidation_guard_skips(p, queue)
                 /\ guard_seen' = LiquidationSeen(p, report, FALSE)
            ELSE /\ liquidation_guard_closes(p, queue, report)
                 /\ guard_seen' = LiquidationSeen(p, report, TRUE)
    /\ UNCHANGED <<now, pos, order_logs, openVars, close_resp, venue_close>>
    /\ UNCHANGED svcVars

\* _close_position_with_reduce_only_orders lines 305-354 once the venues
\* have answered with `snap`: the order list, and the return when it is empty.
close_with_snapshot(g, snap) ==
    IF BuildRaises(snap)
    THEN /\ guard_pc' = [guard_pc EXCEPT ![g] = "dead"]
         /\ UNCHANGED <<risk_tasks, close_orders, close_results, close_result>>
    ELSE IF BuildOrders(snap) = <<>>
    THEN close_returns(g, close_pos[g], Result(<<"no positions or price">>, FALSE),
                       guard_queue[g])
    ELSE /\ close_orders' = [close_orders EXCEPT ![g] = BuildOrders(snap)]
         /\ close_results' = [close_results EXCEPT ![g] =
                [i \in 1..Len(BuildOrders(snap)) |-> NotPlaced]]
         /\ guard_pc' = [guard_pc EXCEPT ![g] = "placing"]
         /\ UNCHANGED <<risk_tasks, close_result>>

\* Lines 272-303: a credential or venue call of the snapshot raised.
close_snapshot_failed(g) ==
    close_returns(g, close_pos[g], Result(<<"snapshot error: " \o "rejected">>, FALSE),
                  guard_queue[g])

\* _close_position_with_reduce_only_orders lines 272-354.
close_snapshot(g) ==
    /\ guard_pc[g] = "closing"
    /\ \/ close_snapshot_failed(g)
       \/ \E snap \in Snapshots : close_with_snapshot(g, snap)
    /\ UNCHANGED <<now, pos, order_logs, openVars, close_resp, guard_queue, close_pos,
                   venue_close, close_seen, liquidation_local, guard_seen>>
    /\ UNCHANGED svcVars

\* The same step, with what the venues reported kept in close_seen.
close_snapshot_observed(g) ==
    /\ guard_pc[g] = "closing"
    /\ \/ /\ close_snapshot_failed(g)
          /\ UNCHANGED close_seen
       \/ \E snap \in Snapshots :
            /\ close_with_snapshot(g, snap)
            /\ close_seen' = Some(snap)
    /\ UNCHANGED <<now, pos, order_logs, openVars, close_resp, guard_queue, close_pos,
                   venue_close, liquidation_local, guard_seen>>
    /\ UNCHANGED svcVars

\* _place_order lines 356-376 for entry i of `orders`.
place_order(g, i) ==
    /\ guard_pc[g] = "placing"
    /\ i \in 1..Len(close_orders[g])
    /\ ~close_results[g][i].done
    /\ LET o == close_orders[g][i] IN
       \E placed \in BOOLEAN, e \in Errors :
         /\ placed => e = ""
         /\ close_results' = [close_results EXCEPT ![g][i] =
                [done |-> TRUE, ok |-> placed, err |-> e]]
         /\ venue_close' = venue_close \cup
                {[pos |-> close_pos[g], venue |-> o.venue, side |-> o.side,
                  reduce_only |-> o.reduce_only, placed |-> placed]}
    /\ UNCHANGED <<now, dbVars, openVars, close_resp, guard_pc, guard_queue, close_pos,
                   close_orders, close_result, close_seen, liquidation_local, guard_seen>>
    /\ UNCHANGED svcVars

\* _close_position_with_reduce_only_orders lines 378-390, after gather.
close_finish(g) ==
    /\ guard_pc[g] = "placing"
    /\ \A i \in 1..Len(close_orders[g]) : close_results[g][i].done
    /\ LET p == close_pos[g]
           failed_reasons == FailedReasons(close_orders[g], close_results[g]) IN
       IF Len(failed_reasons) > 0
       THEN /\ close_returns(g, p, Result(failed_reasons, FALSE), guard_queue[g])
            /\ UNCHANGED pos
       ELSE /\ close_returns(g, p, Result(<<>>, TRUE), guard_queue[g])
            /\ pos' = IF pos[p].status \notin {"none", "closed", "failed"}
                      THEN [pos EXCEPT ![p].status = "exiting", ![p].updated_at = Some(now)]
                      ELSE pos
    /\ UNCHANGED <<now, order_logs, openVars, close_resp, guard_queue, close_pos,
                   venue_close, close_seen, liquidation_local, guard_seen>>
    /\ UNCHANGED svcVars

\* The orchestration flows: open, manual close and the close flow as one
\* guard loop runs it.
Next ==
    \/ Tick
    \/ \E p \in Positions : open_position(p)
    \/ \E p \in Positions : open_get_credentials(p)
    \/ \E p \in Positions, l \in Legs : place_for_venue(p, l)
    \/ \E p \in Positions : open_commit(p)
    \/ \E p \in Positions : close_position(p)
    \/ funding_settlement_select
    \/ \E p \in Positions : funding_settlement_evaluate(p)
    \/ \E g \in Guards : close_snapshot(g)
    \/ \E g \in Guards, i \in 1..2 : place_order(g, i)
    \/ \E g \in Guards : close_finish(g)

Spec == Init /\ [][Next]_vars

\* The open flow and manual close alone, for requests with and without a
\* liquidation-guard threshold.
InitOpen ==
    /\ now = 0
    /\ pos = [p \in Positions |-> NoRow]
    /\ order_logs = [p \in Positions |-> <<>>]
    /\ risk_tasks = [p \in Positions |-> [auto_close |-> NoTask, liquidation_guard |-> NoTask]]
    /\ open_pc = [p \in Positions |-> "idle"]
    /\ open_req \in [Positions ->
            OpenRequests(Venues, Sides, {None} \cup {Some(t) : t \in RequestedThresholds},
                         {None} \cup {Some(ms) : ms \in RequestedAutoCloseMs})]
    /\ open_ok = [p \in Positions |-> [l \in Legs |-> "none"]]
    /\ session_logs = [p \in Positions |-> <<>>]
    /\ venue_open = {}
    /\ close_resp = [p \in Positions |-> NoResponse]
    /\ guard_pc = [g \in Guards |-> "sleeping"]
    /\ guard_queue = [g \in Guards |-> {}]
    /\ close_pos = [g \in Guards |-> CHOOSE p \in Positions : TRUE]
    /\ close_orders = [g \in Guards |-> <<>>]
    /\ close_results = [g \in Guards |-> <<>>]
    /\ close_result = NoResult
    /\ venue_close = {}
    /\ liquidation_local = NoLocal
    /\ close_seen = None
    /\ guard_seen = None
    /\ InitServices

NextOpen ==
    \/ Tick
    \/ \E p \in Positions : open_position(p)
    \/ \E p \in Positions : open_get_credentials(p)
    \/ \E p \in Positions, l \in Legs : place_for_venue(p, l)
    \/ \E p \in Positions : open_commit(p)
    \/ \E p \in Positions : close_position(p)

SpecOpen == InitOpen /\ [][NextOpen]_vars

\* The close flow on a position that an earlier open left in the database,
\* with the venues' answers observed.
InitCloseFlow ==
    /\ now = 0
    /\ pos \in [Positions -> {Row(st, 0, "buy", "sell", n) :
                                st \in {"pending", "partially_filled"}, n \in Notionals}]
    /\ order_logs = [p \in Positions |-> <<>>]
    /\ risk_tasks = [p \in Positions |-> [auto_close |-> NoTask, liquidation_guard |-> NoTask]]
    /\ open_pc = [p \in Positions |-> "done"]
    /\ open_req = [p \in Positions |-> NoRequest]
    /\ open_ok = [p \in Positions |-> [l \in Legs |-> "none"]]
    /\ session_logs = [p \in Positions |-> <<>>]
    /\ venue_open = {}
    /\ close_resp = [p \in Positions |-> NoResponse]
    /\ guard_pc = [g \in Guards |-> "sleeping"]
    /\ guard_queue = [g \in Guards |-> {}]
    /\ close_pos = [g \in Guards |-> CHOOSE p \in Positions : TRUE]
    /\ close_orders = [g \in Guards |-> <<>>]
    /\ close_results = [g \in Guards |-> <<>>]
    /\ close_result = NoResult
    /\ venue_close = {}
    /\ liquidation_local = NoLocal
    /\ close_seen = None
    /\ guard_seen = None
    /\ InitServices

NextCloseFlow ==
    \/ Tick
    \/ \E p \in Positions : close_position(p)
    \/ funding_settlement_select
    \/ \E p \in Positions : funding_settlement_evaluate(p)
    \/ \E g \in Guards : close_snapshot_observed(g)
    \/ \E g \in Guards, i \in 1..2 : place_order(g, i)
    \/ \E g \in Guards : close_finish(g)

SpecCloseFlow == InitCloseFlow /\ [][NextCloseFlow]_vars

\* The liquidation guard, with what it reads observed, next to manual close,
\* on a position whose open asked for the guard with or without a threshold.
InitLiquidation ==
    /\ now = 0
    /\ pos \in [Positions -> {Row(st, 0, "buy", "sell", n) :
                                st \in {"pending", "partially_filled"}, n \in Notionals}]
    /\ order_logs = [p \in Positions |-> <<>>]
    /\ risk_tasks \in [Positions ->
           {[auto_close |-> NoTask, liquidation_guard |-> LiquidationGuardTask(t)] :
               t \in {None} \cup {Some(r) : r \in RequestedThresholds}}]
    /\ open_pc = [p \in Positions |-> "done"]
    /\ open_req = [p \in Positions |-> NoRequest]
    /\ open_ok = [p \in Positions |-> [l \in Legs |-> "none"]]
    /\ session_logs = [p \in Positions |-> <<>>]
    /\ venue_open = {}
    /\ close_resp = [p \in Positions |-> NoResponse]
    /\ guard_pc = [g \in Guards |-> "sleeping"]
    /\ guard_queue = [g \in Guards |-> {}]
    /\ close_pos = [g \in Guards |-> CHOOSE p \in Positions : TRUE]
    /\ close_orders = [g \in Guards |-> <<>>]
    /\ close_results = [g \in Guards |-> <<>>]
    /\ close_result = NoResult
    /\ venue_close = {}
    /\ liquidation_local = NoLocal
    /\ close_seen = None
    /\ guard_seen = None
    /\ InitServices

NextLiquidation ==
    \/ Tick
    \/ \E p \in Positions : close_position(p)
    \/ liquidation_guard_select
    \/ \E p \in Positions : liquidation_guard_evaluate_observed(p)
    \/ \E g \in Guards : close_snapshot(g)
    \/ \E g \in Guards, i \in 1..2 : place_order(g, i)
    \/ \E g \in Guards : close_finish(g)

SpecLiquidation == InitLiquidation /\ [][NextLiquidation]_vars

\* The funding settlement guard, with what it reads observed, next to manual
\* close, on a position opened with either side on its left leg.
InitFunding ==
    /\ now = 0
    /\ pos \in [Positions -> {Row(st, 0, left_side, "sell", n) :
                                st \in {"pending", "partially_filled"},
                                left_side \in Sides, n \in Notionals}]
    /\ order_logs = [p \in Positions |-> <<>>]
    /\ risk_tasks = [p \in Positions |->
                       [auto_close |-> NoTask, liquidation_guard |-> NoTask]]
    /\ open_pc = [p \in Positions |-> "done"]
    /\ open_req = [p \in Positions |-> NoRequest]
    /\ open_ok = [p \in Positions |-> [l \in Legs |-> "none"]]
    /\ session_logs = [p \in Positions |-> <<>>]
    /\ venue_open = {}
    /\ close_resp = [p \in Positions |-> NoResponse]
    /\ guard_pc = [g \in Guards |-> "sleeping"]
    /\ guard_queue = [g \in Guards |-> {}]
    /\ close_pos = [g \in Guards |-> CHOOSE p \in Positions : TRUE]
    /\ close_orders = [g \in Guards |-> <<>>]
    /\ close_results = [g \in Guards |-> <<>>]
    /\ close_result = NoResult
    /\ venue_close = {}
    /\ liquidation_local = NoLocal
    /\ close_seen = None
    /\ guard_seen = None
    /\ InitServices

NextFunding ==
    \/ Tick
    \/ \E p \in Positions : close_position(p)
    \/ funding_settlement_select
    \/ \E p \in Positions : funding_settlement_evaluate_observed(p)
    \/ \E g \in Guards : close_snapshot(g)
    \/ \E g \in Guards, i \in 1..2 : place_order(g, i)
    \/ \E g \in Guards : close_finish(g)

SpecFunding == InitFunding /\ [][NextFunding]_vars

\* The two guard loops that own RiskTasks, auto-close and liquidation
\* guard, next to manual close, on a position an earlier open left in the
\* database.
NextGuards ==
    \/ Tick
    \/ \E p \in Positions : close_position(p)
    \/ auto_close_select
    \/ \E p \in Positions : execute_auto_close_task(p)
    \/ liquidation_guard_select
    \/ \E p \in Positions : liquidation_guard_evaluate(p)
    \/ \E g \in Guards : close_snapshot(g)
    \/ \E g \in Guards, i \in 1..2 : place_order(g, i)
    \/ \E g \in Guards : close_finish(g)

\* The auto_close rows the risk_tasks table may hold at start-up (no code
\* path creates them): due or not yet due, enabled or not.
AutoCloseTasks ==
    {NoTask} \cup {[PendingTask EXCEPT !.enabled = en, !.execute_at = Some(t)] :
                      en \in BOOLEAN, t \in {0, MaxClock}}

InitGuards ==
    /\ now = 0
    /\ pos \in [Positions -> {Row(st, 0, "buy", "sell", n) :
                                st \in {"pending", "partially_filled"}, n \in Notionals}]
    /\ order_logs = [p \in Positions |-> <<>>]
    /\ risk_tasks \in [Positions ->
           {[auto_close |-> a, liquidation_guard |-> l] :
               a \in AutoCloseTasks, l \in {NoTask, LiquidationGuardTask(None)}}]
    /\ open_pc = [p \in Positions |-> "done"]
    /\ open_req = [p \in Positions |-> NoRequest]
    /\ open_ok = [p \in Positions |-> [l \in Legs |-> "none"]]
    /\ session_logs = [p \in Positions |-> <<>>]
    /\ venue_open = {}
    /\ close_resp = [p \in Positions |-> NoResponse]
    /\ guard_pc = [g \in Guards |-> "sleeping"]
    /\ guard_queue = [g \in Guards |-> {}]
    /\ close_pos = [g \in Guards |-> CHOOSE p \in Positions : TRUE]
    /\ close_orders = [g \in Guards |-> <<>>]
    /\ close_results = [g \in Guards |-> <<>>]
    /\ close_result = NoResult
    /\ venue_close = {}
    /\ liquidation_local = NoLocal
    /\ close_seen = None
    /\ guard_seen = None
    /\ InitServices

SpecGuards == InitGuards /\ [][NextGuards]_vars

\* lifespan lines 113-116 at shutdown: worker.cancel() for every guard
\* task. asyncio raises CancelledError inside each task at the await it is
\* suspended in (the sleep, a venue call of the snapshot, the gather of
\* _place_order calls); no guard catches it, so the task ends there with
\* its frame as it was. A task that already ended stays as it is.
lifespan_shutdown ==
    /\ \E g \in Guards : guard_pc[g] \notin {"cancelled", "dead"}
    /\ guard_pc' = [g \in Guards |->
                       IF guard_pc[g] = "dead" THEN "dead" ELSE "cancelled"]
    /\ UNCHANGED <<now, dbVars, openVars, close_resp, guard_queue, close_pos,
                   close_orders, close_results, close_result, venue_close,
                   liquidation_local, close_seen, guard_seen>>
    /\ UNCHANGED svcVars

\* The guards of SpecGuards, and the server being shut down at any moment.
NextShutdown ==
    \/ Tick
    \/ auto_close_select
    \/ \E p \in Positions : execute_auto_close_task(p)
    \/ liquidation_guard_select
    \/ \E p \in Positions : liquidation_guard_evaluate(p)
    \/ \E g \in Guards : close_snapshot(g)
    \/ \E g \in Guards, i \in 1..2 : place_order(g, i)
    \/ \E g \in Guards : close_finish(g)
    \/ lifespan_shutdown

SpecShutdown == InitGuards /\ [][NextShutdown]_vars

\* The guards of SpecGuards kept running, with no manual close request:
\* every guard step that can be taken is eventually taken.
NextUnwind ==
    \/ Tick
    \/ auto_close_select
    \/ \E p \in Positions : execute_auto_close_task(p)
    \/ liquidation_guard_select
    \/ \E p \in Positions : liquidation_guard_evaluate(p)
    \/ \E g \in Guards : close_snapshot(g)
    \/ \E g \in Guards, i \in 1..2 : place_order(g, i)
    \/ \E g \in Guards : close_finish(g)

SpecUnwind == InitGuards /\ [][NextUnwind]_vars /\ WF_vars(NextUnwind)

\* ======================================================= Lighter order book

\* Everything of the orchestration flows, which the market-data services
\* never touch.
orchVars == <<now, dbVars, openVars, close_resp, guardVars>>

\* The orchestration flows at rest: nothing opened, every guard asleep.
OrchestrationIdle ==
    /\ now = 0
    /\ pos = [p \in Positions |-> NoRow]
    /\ order_logs = [p \in Positions |-> <<>>]
    /\ risk_tasks = [p \in Positions |-> [auto_close |-> NoTask, liquidation_guard |-> NoTask]]
    /\ open_pc = [p \in Positions |-> "idle"]
    /\ open_req = [p \in Positions |-> NoRequest]
    /\ open_ok = [p \in Positions |-> [l \in Legs |-> "none"]]
    /\ session_logs = [p \in Positions |-> <<>>]
    /\ venue_open = {}
    /\ close_resp = [p \in Positions |-> NoResponse]
    /\ guard_pc = [g \in Guards |-> "sleeping"]
    /\ guard_queue = [g \in Guards |-> {}]
    /\ close_pos = [g \in Guards |-> CHOOSE p \in Positions : TRUE]
    /\ close_orders = [g \in Guards |-> <<>>]
    /\ close_results = [g \in Guards |-> <<>>]
    /\ close_result = NoResult
    /\ venue_close = {}
    /\ liquidation_local = NoLocal
    /\ close_seen = None
    /\ guard_seen = None

\* The `depth` the order-book stream was subscribed with.
depth == 1

BookSides == {"asks", "bids"}

\* _parse_decimal of a price as the venue spells it; two spellings of one
\* price are different strings with the same value.
parse_decimal(price) ==
    CASE price = "0" -> 0
      [] price = "97" -> 97
      [] price = "98" -> 98
      [] price = "99" -> 99
      [] price = "100" -> 100
      [] price = "100.0" -> 100
      [] price = "101" -> 101
      [] price = "102" -> 102

\* One entry of an asks/bids list: the price as spelled, the size as a number.
Level(price, size) == [price |-> price, size |-> size]

\* list.sort / sorted by parse_decimal(price): stable, also with reverse=True.
RECURSIVE InsertSorted(_, _, _)
InsertSorted(sorted, entry, reverse) ==
    IF sorted = <<>> THEN <<entry>>
    ELSE LET head == parse_decimal(sorted[1].price)
             key == parse_decimal(entry.price)
         IN IF (IF reverse THEN key > head ELSE key < head)
            THEN <<entry>> \o sorted
            ELSE <<sorted[1]>> \o InsertSorted(Tail(sorted), entry, reverse)

RECURSIVE SortedByPrice(_, _)
SortedByPrice(levels, reverse) ==
    IF levels = <<>> THEN <<>>
    ELSE InsertSorted(SortedByPrice(SubSeq(levels, 1, Len(levels) - 1), reverse),
                      levels[Len(levels)], reverse)

\* Lines 479-490: one new_order against the existing list: the first entry
\* with the same price string gets the size, else the order is appended when
\* its size is positive.
UpsertLevel(existing, new_order) ==
    IF \E i \in 1..Len(existing) : existing[i].price = new_order.price
    THEN LET i == CHOOSE j \in 1..Len(existing) :
                    /\ existing[j].price = new_order.price
                    /\ \A k \in 1..(j - 1) : existing[k].price # new_order.price
         IN [existing EXCEPT ![i].size = new_order.size]
    ELSE IF new_order.size > 0 THEN Append(existing, new_order) ELSE existing

RECURSIVE UpsertAll(_, _)
UpsertAll(existing, new_orders) ==
    IF new_orders = <<>> THEN existing
    ELSE UpsertAll(UpsertLevel(existing, new_orders[1]), Tail(new_orders))

PositiveSize(entry) == entry.size > 0

\* `del existing[depth_limit * 3:]`
Truncated(levels, limit) ==
    IF Len(levels) > limit THEN SubSeq(levels, 1, limit) ELSE levels

\* The cut left out.
apply_side_uncut(existing, new_orders, side, depth_limit) ==
    SortedByPrice(SelectSeq(UpsertAll(existing, new_orders), PositiveSize), side = "bids")

\* _apply_lighter_updates lines 476-498 for one side the message lists.
apply_side(existing, new_orders, side, depth_limit) ==
    Truncated(SortedByPrice(SelectSeq(UpsertAll(existing, new_orders), PositiveSize),
                            side = "bids"),
              depth_limit * 3)

\* _apply_lighter_updates: a side the message does not list is skipped.
apply_lighter_updates(state, updates, depth_limit) ==
    [side \in BookSides |->
        IF updates[side] = None THEN state[side]
        ELSE apply_side(state[side], updates[side][1], side, depth_limit)]

\* The loop of _build_lighter_side over `ordered`: levels with their
\* running total, entries without positive price and size passed over.
RECURSIVE Cumulated(_, _)
Cumulated(ordered, cumulative) ==
    IF ordered = <<>> THEN <<>>
    ELSE LET entry == ordered[1] IN
         IF parse_decimal(entry.price) <= 0 \/ entry.size <= 0
         THEN Cumulated(Tail(ordered), cumulative)
         ELSE <<[price |-> parse_decimal(entry.price), size |-> entry.size,
                 total |-> cumulative + entry.size]>>
              \o Cumulated(Tail(ordered), cumulative + entry.size)

\* _build_lighter_side
build_lighter_side(raw_levels, d, reverse) ==
    Cumulated(Truncated(SortedByPrice(raw_levels, reverse), d), 0)

\* _build_lighter_orderbook
build_lighter_orderbook(state, d) ==
    [bids |-> build_lighter_side(state.bids, d, TRUE),
     asks |-> build_lighter_side(state.asks, d, FALSE)]

\* The bids and asks of the "subscribed/order_book" messages the venue sends.
SnapshotBids ==
    {<<>>,
     <<Level("100", 5)>>,
     <<Level("98", 0), Level("100", 5)>>,
     <<Level("100", 5), Level("99", 1), Level("98", 1), Level("97", 1)>>}

SnapshotAsks ==
    {<<Level("101", 3)>>,
     <<Level("102", 1), Level("0", 1), Level("101", 3)>>}

\* The levels an "update/order_book" message may list for the bids.
UpdateBidLevels == [price : {"99", "100", "100.0", "101"}, size : {0, 2}]

\* "bids" of an update: not there, or up to two levels.
UpdateBids ==
    {None} \cup {Some(<<>>)} \cup {Some(<<a>>) : a \in UpdateBidLevels}
           \cup {Some(<<a, b>>) : a \in UpdateBidLevels, b \in UpdateBidLevels}

UpdateAsks == {None, Some(<<Level("101", 0), Level("102", 2)>>)}

\* _run_lighter_ws_loop lines 402-406 and 410-415: a full snapshot replaces
\* the retained lists as sent, and the merged book is yielded.
run_lighter_ws_subscribed ==
    \E bids \in SnapshotBids, asks \in SnapshotAsks :
        /\ ws_message' = Some([type |-> "subscribed/order_book",
                               order_book |-> [asks |-> Some(asks), bids |-> Some(bids)]])
        /\ order_book_state' = [asks |-> asks, bids |-> bids]
        /\ emitted' = Some(build_lighter_orderbook(order_book_state', depth))
        /\ UNCHANGED <<orchVars, streamVars, marketVars, cacheVars, extraVars>>

\* Lines 407-415: an incremental message is merged into the retained lists
\* and the merged book is yielded.
run_lighter_ws_update ==
    \E bids \in UpdateBids, asks \in UpdateAsks :
        /\ bids # None \/ asks # None
        /\ ws_message' = Some([type |-> "update/order_book",
                               order_book |-> [asks |-> asks, bids |-> bids]])
        /\ order_book_state' =
              apply_lighter_updates(order_book_state, [asks |-> asks, bids |-> bids], depth)
        /\ emitted' = Some(build_lighter_orderbook(order_book_state', depth))
        /\ UNCHANGED <<orchVars, streamVars, marketVars, cacheVars, extraVars>>

\* stream_orderbook lines 335-349: the connection is lost and
\* _run_lighter_ws_loop is entered again with empty lists.
run_lighter_ws_reconnect ==
    /\ order_book_state # [asks |-> <<>>, bids |-> <<>>]
    /\ order_book_state' = [asks |-> <<>>, bids |-> <<>>]
    /\ ws_message' = None
    /\ UNCHANGED <<emitted, orchVars, streamVars, marketVars, cacheVars, extraVars>>

InitOrderBook == OrchestrationIdle /\ InitServices

NextOrderBook ==
    \/ run_lighter_ws_subscribed
    \/ run_lighter_ws_update
    \/ run_lighter_ws_reconnect

SpecOrderBook == InitOrderBook /\ [][NextOrderBook]_vars

\* ================================================== order-book stream loops

\* The most consecutive reconnect attempts followed.
MaxAttempts == 7

\* `min(backoff * 2, 30.0)` (lighter_service.py:349) and
\* `min(backoff * 2, 5.0)` (grvt_service.py:139), in half seconds.
BackoffCap(venue) == IF venue = "lighter" THEN 60 ELSE 10

Doubled(venue) ==
    IF backoff[venue] * 2 < BackoffCap(venue) THEN backoff[venue] * 2 ELSE BackoffCap(venue)

\* A book message arrives and is passed on: `backoff = 1.0` after the yield
\* (lighter_service.py:341-343), `backoff = 0.5` after queue.put
\* (grvt_service.py:131-135).
stream_message(venue) ==
    /\ stream_pc[venue] = "connected"
    /\ backoff' = [backoff EXCEPT ![venue] = InitialBackoff(venue)]
    /\ attempts' = [attempts EXCEPT ![venue] = 0]
    /\ UNCHANGED <<stream_pc, slept, orchVars, bookVars, marketVars, cacheVars, extraVars>>

\* connect, send or receive raises. Lighter (lines 344-348) logs and sleeps
\* for `backoff`; GRVT (lines 138-140) doubles `backoff` first and sleeps
\* for the doubled value.
stream_error(venue) ==
    /\ stream_pc[venue] = "connected"
    /\ attempts[venue] < MaxAttempts
    /\ attempts' = [attempts EXCEPT ![venue] = @ + 1]
    /\ stream_pc' = [stream_pc EXCEPT ![venue] = "sleeping"]
    /\ IF venue = "lighter"
       THEN /\ slept' = [slept EXCEPT ![venue] = backoff[venue]]
            /\ UNCHANGED backoff
       ELSE /\ backoff' = [backoff EXCEPT ![venue] = Doubled(venue)]
            /\ slept' = [slept EXCEPT ![venue] = Doubled(venue)]
    /\ UNCHANGED <<orchVars, bookVars, marketVars, cacheVars, extraVars>>

\* The venue closes the connection and `async for` ends without an
\* exception. Lighter falls through to the same sleep (line 348); GRVT's
\* `while True` connects again at once (grvt_service.py:126-128).
stream_closed(venue) ==
    /\ stream_pc[venue] = "connected"
    /\ attempts[venue] < MaxAttempts
    /\ attempts' = [attempts EXCEPT ![venue] = @ + 1]
    /\ IF venue = "lighter"
       THEN /\ stream_pc' = [stream_pc EXCEPT ![venue] = "sleeping"]
            /\ slept' = [slept EXCEPT ![venue] = backoff[venue]]
       ELSE /\ slept' = [slept EXCEPT ![venue] = 0]
            /\ UNCHANGED stream_pc
    /\ UNCHANGED <<backoff, orchVars, bookVars, marketVars, cacheVars, extraVars>>

\* The sleep is over and the stream connects again; Lighter doubles
\* `backoff` now (line 349).
stream_wake(venue) ==
    /\ stream_pc[venue] = "sleeping"
    /\ stream_pc' = [stream_pc EXCEPT ![venue] = "connected"]
    /\ backoff' = [backoff EXCEPT ![venue] =
                       IF venue = "lighter" THEN Doubled(venue) ELSE @]
    /\ UNCHANGED <<slept, attempts, orchVars, bookVars, marketVars, cacheVars, extraVars>>

InitStreams == OrchestrationIdle /\ InitServices

NextStreams ==
    \/ \E venue \in Venues : stream_message(venue)
    \/ \E venue \in Venues : stream_error(venue)
    \/ \E venue \in Venues : stream_closed(venue)
    \/ \E venue \in Venues : stream_wake(venue)

SpecStreams == InitStreams /\ [][NextStreams]_vars

\* ------------------------------------------------ market snapshot service

\* str.upper() of the symbols the venues list.
Upper(symbol) ==
    CASE symbol = "eth-perp" -> "ETH-PERP"
      [] symbol = "kPEPE" -> "KPEPE"
      [] OTHER -> symbol

\* _normalize_derivatives_base: upper(), removesuffix("-PERP"), then
\* _normalize_base_symbol's SYMBOL_RENAMES
normalize_derivatives_base(symbol) ==
    CASE Upper(symbol) = "ETH-PERP" -> "ETH"
      [] Upper(symbol) = "1000PEPE" -> "kPEPE"
      [] OTHER -> Upper(symbol)

\* Seconds of one step of the clock (see Minute).
TickSeconds == SETTLEMENT_GUARD_WINDOW_MINUTES * 60

CACHE_TTL_SECONDS == 600

PREDICTION_CACHE_TTL_SECONDS == 600

\* ExchangeMarketMetrics, cut to the fields the join and the sort read;
\* day_notional_volume is always set with volume_usd.
Market(base_symbol, symbol, volume_usd) ==
    [base_symbol |-> base_symbol, symbol |-> symbol, volume_usd |-> volume_usd]

\* ApiError(source=..., message=_format_exception(exc))
ApiError(source) == [source |-> source, message |-> "rejected"]

\* One HTTP request to a venue; `instrument` is the ticker asked for.
Request(venue, path, instrument) ==
    [venue |-> venue, path |-> path, instrument |-> instrument]

\* daily_quote_token_volume of /api/v1/exchangeStats, by upper-cased symbol.
LighterVolume(symbol) ==
    CASE symbol = "BTC" -> Some(5)
      [] symbol = "ETH-PERP" -> Some(9)
      [] OTHER -> None

\* buy_volume_24h_q + sell_volume_24h_q of a GRVT ticker, by instrument.
GrvtVolume(instrument) ==
    CASE instrument = "BTC_USDT_Perp" -> 3
      [] instrument = "BTC_USDC_Perp" -> 1
      [] instrument = "SOL_USDT_Perp" -> 7
      [] OTHER -> 0

\* The `symbol` entries /api/v1/orderBooks answers with.
LighterListings == {<<>>, <<"BTC">>, <<"1000PEPE", "BTC", "eth-perp">>}

\* The PERPETUAL instruments /full/v1/all_instruments answers with.
GrvtListings ==
    {<<>>,
     <<[instrument |-> "SOL_USDT_Perp", base |-> "SOL"],
       [instrument |-> "BTC_USDT_Perp", base |-> "BTC"],
       [instrument |-> "ETH_USDT_Perp", base |-> "ETH"]>>,
     <<[instrument |-> "BTC_USDT_Perp", base |-> "BTC"],
       [instrument |-> "BTC_USDC_Perp", base |-> "BTC"]>>}

\* What a venue answers to one fetch: its listing (None when the listing
\* request fails) and whether its volume requests (exchangeStats, tickers)
\* succeed.
FetchOutcomes(provider) ==
    [listing : {None} \cup {Some(l) : l \in (IF provider = "lighter"
                                             THEN LighterListings ELSE GrvtListings)},
     detail_ok : BOOLEAN]

\* The markets of _fetch_lighter_markets: one per listed symbol, the later
\* entry kept when two share a symbol (symbol_to_market), in first-seen order.
RECURSIVE LighterMarkets(_, _)
LighterMarkets(listing, stats_ok) ==
    IF listing = <<>> THEN <<>>
    ELSE LET symbol == Upper(listing[1])
             rest == LighterMarkets(Tail(listing), stats_ok)
         IN  IF \E i \in 1..Len(rest) : rest[i].symbol = symbol THEN rest
             ELSE <<Market(normalize_derivatives_base(symbol), symbol,
                           IF stats_ok THEN LighterVolume(symbol) ELSE None)>> \o rest

\* _fetch_lighter_markets
fetch_lighter_markets(outcome) ==
    LET requests == <<Request("lighter", "orderBooks", ""),
                      Request("lighter", "funding-rates", ""),
                      Request("lighter", "exchangeStats", "")>>
        errors == (IF outcome.listing = None THEN <<ApiError("Lighter API")>> ELSE <<>>)
                  \o (IF outcome.detail_ok THEN <<>> ELSE <<ApiError("Lighter API")>>)
    IN  [markets |-> IF outcome.listing = None THEN <<>>
                     ELSE LighterMarkets(outcome.listing[1], outcome.detail_ok),
         errors |-> errors, requests |-> requests]

\* `if candidate_bases:` and the filter under it: None and the empty set
\* both leave perp_instruments as it is.
RECURSIVE FilteredByBase(_, _)
FilteredByBase(perp_instruments, candidate_bases) ==
    IF perp_instruments = <<>> THEN <<>>
    ELSE (IF Upper(perp_instruments[1].base) \in {Upper(b) : b \in candidate_bases}
          THEN <<perp_instruments[1]>> ELSE <<>>)
         \o FilteredByBase(Tail(perp_instruments), candidate_bases)

CandidateInstruments(perp_instruments, candidate_bases) ==
    IF candidate_bases # None /\ candidate_bases[1] # {}
    THEN FilteredByBase(perp_instruments, candidate_bases[1])
    ELSE perp_instruments

\* The market _fetch_grvt_markets builds of one instrument and its ticker.
GrvtMarket(inst, tickers_ok) ==
    LET base_symbol == Upper(inst.base)
        volume_q == IF tickers_ok THEN GrvtVolume(inst.instrument) ELSE 0
    IN  Market(base_symbol, base_symbol \o "-PERP",
               IF volume_q > 0 THEN Some(volume_q) ELSE None)

\* _fetch_grvt_markets
fetch_grvt_markets(candidate_bases, outcome) ==
    IF outcome.listing = None
    THEN [markets |-> <<>>, errors |-> <<ApiError("GRVT API")>>,
          requests |-> <<Request("grvt", "all_instruments", "")>>]
    ELSE LET perp_instruments == CandidateInstruments(outcome.listing[1], candidate_bases)
         IN  [markets |-> [i \in 1..Len(perp_instruments) |->
                               GrvtMarket(perp_instruments[i], outcome.detail_ok)],
              errors |-> <<>>,
              requests |-> <<Request("grvt", "all_instruments", "")>>
                           \o [i \in 1..Len(perp_instruments) |->
                                   Request("grvt", "ticker", perp_instruments[i].instrument)]]

\* fetch_exchange_snapshot
fetch_exchange_snapshot(source, candidate_bases, outcome) ==
    IF source = "lighter" THEN fetch_lighter_markets(outcome)
    ELSE fetch_grvt_markets(candidate_bases, outcome)

\* `{market.base_symbol.upper() for market in snapshot.markets if market.base_symbol}`
CandidateBases(markets) ==
    {Upper(markets[i].base_symbol) : i \in {j \in 1..Len(markets) : markets[j].base_symbol # ""}}

\* secondary_by_base.get(base_symbol): the last secondary market of that base.
MatchingRight(secondary_markets, base_symbol) ==
    LET hits == {i \in 1..Len(secondary_markets) :
                     /\ secondary_markets[i].base_symbol # ""
                     /\ secondary_markets[i].base_symbol = base_symbol}
    IN  IF base_symbol = "" \/ hits = {} THEN None
        ELSE Some(secondary_markets[CHOOSE i \in hits : \A j \in hits : j <= i])

ValueOr(optional, default) == IF optional = None THEN default ELSE optional[1]

\* The MarketRow appended for one primary market.
MarketRow(left_market, secondary, secondary_markets) ==
    LET base_symbol == IF left_market.base_symbol # "" THEN left_market.base_symbol
                       ELSE left_market.symbol
        matching_right == MatchingRight(secondary_markets, base_symbol)
        left_volume == left_market.volume_usd
        right_volume == IF matching_right = None THEN None ELSE matching_right[1].volume_usd
    IN  [left_symbol |-> left_market.symbol,
         symbol |-> base_symbol,
         day_notional_volume |-> left_volume,
         volume_usd |-> IF left_volume # None \/ right_volume # None
                        THEN Some(ValueOr(left_volume, 0) + ValueOr(right_volume, 0))
                        ELSE None,
         right |-> IF matching_right = None THEN None
                   ELSE Some([source |-> secondary, symbol |-> matching_right[1].symbol,
                              volume_usd |-> matching_right[1].volume_usd])]

\* The key of rows.sort: `row.volume_usd or row.day_notional_volume or 0`
RowVolume(row) ==
    IF ValueOr(row.volume_usd, 0) # 0 THEN ValueOr(row.volume_usd, 0)
    ELSE ValueOr(row.day_notional_volume, 0)

\* rows.sort(key=0 - volume): stable, larger volume first.
RECURSIVE InsertByVolume(_, _)
InsertByVolume(sorted, row) ==
    IF sorted = <<>> THEN <<row>>
    ELSE IF RowVolume(sorted[1]) < RowVolume(row) THEN <<row>> \o sorted
    ELSE <<sorted[1]>> \o InsertByVolume(Tail(sorted), row)

RECURSIVE SortedByVolume(_)
SortedByVolume(rows) ==
    IF rows = <<>> THEN <<>>
    ELSE InsertByVolume(SortedByVolume(SubSeq(rows, 1, Len(rows) - 1)), rows[Len(rows)])

\* An inner join: primary markets without a match are left out.
BuildRows_matched(primary_markets, secondary, secondary_markets) ==
    LET Matched(row) == row.right # None
    IN  SelectSeq([i \in 1..Len(primary_markets) |->
                      MarketRow(primary_markets[i], secondary, secondary_markets)],
                  Matched)

\* The loop over primary_snapshot.markets.
BuildRows(primary_markets, secondary, secondary_markets) ==
    [i \in 1..Len(primary_markets) |->
        MarketRow(primary_markets[i], secondary, secondary_markets)]

\* What get_perp_snapshot fetches and returns, given what the venues answer
\* to the primary's and the secondary's fetch.
PerpSnapshot(primary, secondary, primary_outcome, secondary_outcome) ==
    LET first == IF secondary = "grvt" /\ primary # "grvt"
                 THEN fetch_exchange_snapshot(primary, None, primary_outcome)
                 ELSE fetch_exchange_snapshot(secondary, None, secondary_outcome)
        primary_snapshot ==
            IF secondary = "grvt" /\ primary # "grvt" THEN first
            ELSE IF primary = "grvt" /\ secondary # "grvt"
            THEN fetch_exchange_snapshot(primary, Some(CandidateBases(first.markets)),
                                         primary_outcome)
            ELSE fetch_exchange_snapshot(primary, None, primary_outcome)
        secondary_snapshot ==
            IF secondary = "grvt" /\ primary # "grvt"
            THEN fetch_exchange_snapshot(secondary, Some(CandidateBases(first.markets)),
                                         secondary_outcome)
            ELSE first
    IN  [primary |-> primary, secondary |-> secondary,
         primary_outcome |-> primary_outcome, secondary_outcome |-> secondary_outcome,
         primary_markets |-> primary_snapshot.markets,
         secondary_markets |-> secondary_snapshot.markets,
         requests |-> IF primary = "grvt" /\ secondary # "grvt"
                      THEN secondary_snapshot.requests \o primary_snapshot.requests
                      ELSE primary_snapshot.requests \o secondary_snapshot.requests,
         rows |-> SortedByVolume(BuildRows(primary_snapshot.markets, secondary,
                                           secondary_snapshot.markets)),
         errors |-> primary_snapshot.errors \o secondary_snapshot.errors]

\* get_perp_snapshot(primary, secondary), from its first request to its return.
get_perp_snapshot(primary, secondary) ==
    \E primary_outcome \in FetchOutcomes(primary),
       secondary_outcome \in FetchOutcomes(secondary) :
        LET result == PerpSnapshot(primary, secondary, primary_outcome, secondary_outcome)
        IN  /\ venue_requests' = result.requests
            /\ perp_result' = Some(result)
            /\ perp_served' = Some([primary |-> primary, secondary |-> secondary,
                                    at |-> now])
            /\ UNCHANGED <<orchVars, bookVars, streamVars, cacheVars, extraVars>>

InitMarketSnapshot == OrchestrationIdle /\ InitServices

NextMarketSnapshot ==
    \/ Tick
    \/ \E primary \in Venues, secondary \in Venues : get_perp_snapshot(primary, secondary)

SpecMarket == InitMarketSnapshot /\ [][NextMarketSnapshot]_vars

\* ---------------------------------------------- snapshot response caches

MaxComputed == 2     \* responses computed in a run

\* PREDICTION_CACHE_TTL_SECONDS / CACHE_TTL_SECONDS of the kind's cache
CacheTtl(kind) ==
    IF kind = "prediction" THEN PREDICTION_CACHE_TTL_SECONDS ELSE CACHE_TTL_SECONDS

\* Ignores force_refresh: a fresh entry is always served.
CacheHit_unforced(kind, key, force_refresh) ==
    LET cached == response_cache[kind][key]
    IN  /\ cached # None
        /\ (now - cached[1].stored_at) * TickSeconds < CacheTtl(kind)

\* `if not force_refresh:` ... `if cached and time() - cached[0] < TTL`
CacheHit(kind, key, force_refresh) ==
    LET cached == response_cache[kind][key]
    IN  /\ ~force_refresh
        /\ cached # None
        /\ (now - cached[1].stored_at) * TickSeconds < CacheTtl(kind)

\* get_funding_prediction_snapshot / get_arbitrage_snapshot up to their
\* first await: a hit returns the cached response, a miss or a forced
\* refresh starts the computation.
snapshot_call(c, kind, key, force_refresh) ==
    /\ calls[c].pc # "computing"
    /\ calls' = [calls EXCEPT ![c] =
                   IF CacheHit(kind, key, force_refresh)
                   THEN [pc |-> "returned", kind |-> kind, key |-> key,
                         force_refresh |-> force_refresh,
                         returned |-> Some(response_cache[kind][key][1].response),
                         recomputed |-> FALSE]
                   ELSE [pc |-> "computing", kind |-> kind, key |-> key,
                         force_refresh |-> force_refresh, returned |-> None,
                         recomputed |-> TRUE]]
    /\ UNCHANGED <<response_cache, computed>>
    /\ UNCHANGED <<orchVars, bookVars, streamVars, marketVars, extraVars>>

\* The computation ends: the response is stored under the key with the
\* time of the store, and returned.
snapshot_computed(c) ==
    /\ calls[c].pc = "computing"
    /\ computed < MaxComputed
    /\ computed' = computed + 1
    /\ response_cache' = [response_cache EXCEPT ![calls[c].kind][calls[c].key] =
                              Some([stored_at |-> now, response |-> computed + 1])]
    /\ calls' = [calls EXCEPT ![c].pc = "returned", ![c].returned = Some(computed + 1)]
    /\ UNCHANGED <<orchVars, bookVars, streamVars, marketVars, extraVars>>

\* The computation raises, or its request is cancelled, before the store.
snapshot_raised(c) ==
    /\ calls[c].pc = "computing"
    /\ calls' = [calls EXCEPT ![c].pc = "raised"]
    /\ UNCHANGED <<response_cache, computed>>
    /\ UNCHANGED <<orchVars, bookVars, streamVars, marketVars, extraVars>>

\* The service some time after its start: a key may hold a response stored
\* one clock step ago.
InitResponseCache ==
    /\ OrchestrationIdle
    /\ InitBook /\ InitStream /\ InitMarket /\ InitExtra
    /\ response_cache \in [Kinds -> [CacheKeys -> {None, Some([stored_at |-> 0 - 1, response |-> 0])}]]
    /\ calls = [c \in Callers |-> NoCall]
    /\ computed = 0

NextResponseCache ==
    \/ Tick
    \/ \E c \in Callers, kind \in Kinds, key \in CacheKeys, force_refresh \in BOOLEAN :
           snapshot_call(c, kind, key, force_refresh)
    \/ \E c \in Callers : snapshot_computed(c)
    \/ \E c \in Callers : snapshot_raised(c)

SpecResponseCache == InitResponseCache /\ [][NextResponseCache]_vars

\* ------------------------------------------------- funding-prediction jobs

MaxRows == 2         \* eligible rows of a prediction batch

SPREAD_SAMPLING_DURATION_SECONDS == 3
SPREAD_SAMPLING_INTERVAL_SECONDS == 1

\* A progress value of n percent.  Progress is a float in the code; the model
\* keeps it in thousandths of a percent, rounded down.
Pct(n) == n * 1000

\* `min(max(progress, 0.0), 100.0)`, applied by _invoke_progress_callback and
\* again by _set_prediction_job_state.
ClampProgress(progress) ==
    IF progress < 0 THEN 0 ELSE IF progress > Pct(100) THEN Pct(100) ELSE progress

\* _set_prediction_job_state: under _prediction_job_lock, which is never held
\* across a suspension point; an argument that is None leaves its field alone.
set_prediction_job_state(status_value, progress, error, result) ==
    IF job = None
    THEN job' = job
    ELSE job' = Some([status   |-> ValueOr(status_value, job[1].status),
                      progress |-> IF progress = None THEN job[1].progress
                                   ELSE ClampProgress(progress[1]),
                      error    |-> IF error = None THEN job[1].error ELSE error,
                      result   |-> IF result = None THEN job[1].result ELSE result])

\* The callback `_progress` handed to the service, behind
\* _invoke_progress_callback.
progress_callback(progress) ==
    set_prediction_job_state(None, Some(ClampProgress(progress)), None, None)

\* `max(duration_seconds // max(interval_seconds, 1), 1)`
sample_count ==
    LET interval == IF SPREAD_SAMPLING_INTERVAL_SECONDS > 1
                    THEN SPREAD_SAMPLING_INTERVAL_SECONDS ELSE 1
        count == SPREAD_SAMPLING_DURATION_SECONDS \div interval
    IN  IF count > 1 THEN count ELSE 1

\* `5 + ((index + 1) / max(sample_count, 1)) * 85`, index counted from 1 here.
SamplingProgress(index) == Pct(5) + (index * Pct(85)) \div sample_count

RowProgress_remaining(completed_rows, total_rows) ==
    Pct(90) + ((total_rows - completed_rows) * Pct(10)) \div total_rows

\* `90 + (completed_rows_value / total_rows) * 10`
RowProgress(completed_rows, total_rows) ==
    Pct(90) + (completed_rows * Pct(10)) \div total_rows

\* POST /funding-prediction/jobs: stores the job and schedules _runner.
create_funding_prediction_job ==
    /\ job = None
    /\ job' = Some([status |-> "pending", progress |-> 0, error |-> None, result |-> None])
    /\ runner' = [NoRunner EXCEPT !.pc = "created"]
    /\ UNCHANGED <<polled, batchVars, orchVars, bookVars, streamVars, marketVars, cacheVars, pureVars, adminVars>>

\* _runner's first statement.
runner_start ==
    /\ runner.pc = "created"
    /\ set_prediction_job_state(Some("running"), Some(Pct(1)), None, None)
    /\ runner' = [runner EXCEPT !.pc = "snapshot"]
    /\ UNCHANGED <<polled, batchVars, orchVars, bookVars, streamVars, marketVars, cacheVars, pureVars, adminVars>>

\* get_funding_prediction_snapshot up to the sampling: a fresh cached response
\* is returned at once; otherwise the snapshot is loaded and its eligible rows
\* are selected.  Without eligible rows the sampling loop is skipped.
prediction_snapshot_begin(cached, eligible_rows) ==
    /\ runner.pc = "snapshot"
    /\ IF cached
       THEN /\ progress_callback(Pct(100))
            /\ runner' = [runner EXCEPT !.pc = "return"]
       ELSE /\ progress_callback(Pct(3))
            /\ runner' = [runner EXCEPT
                   !.pc = "sampling",
                   !.index = IF eligible_rows = 0 THEN sample_count ELSE 0,
                   !.eligible = 1..eligible_rows,
                   !.rows = 1..eligible_rows,
                   !.total_rows = IF eligible_rows > 1 THEN eligible_rows ELSE 1]
    /\ UNCHANGED <<polled, batchVars, orchVars, bookVars, streamVars, marketVars, cacheVars, pureVars, adminVars>>

\* One round of _sample_average_bid_ask_spreads, or its return and the
\* callback that follows it.
sample_average_bid_ask_spreads ==
    /\ runner.pc = "sampling"
    /\ IF runner.index < sample_count
       THEN /\ progress_callback(SamplingProgress(runner.index + 1))
            /\ runner' = [runner EXCEPT !.index = @ + 1]
       ELSE /\ progress_callback(Pct(90))
            /\ runner' = [runner EXCEPT !.pc = "rows"]
    /\ UNCHANGED <<polled, batchVars, orchVars, bookVars, streamVars, marketVars, cacheVars, pureVars, adminVars>>

MAX_ACCEPTABLE_PRICE_VOLATILITY_PCT == 10
SPREAD_INTOLERABLE_BPS == 15

\* What get_funding_history gives _compute_row: it raises, returns nothing,
\* returns points none of which has a spread inside the 72 h lookback,
\* returns fewer than two spread samples inside the 24 h window, or returns
\* enough of both.
Histories == {"raised", "empty", "no lookback sample", "one volatility sample", "enough"}

\* The sampled 24 h price volatility of a symbol (in thousandths of a
\* percent) and the bid-ask spread of each of its books in basis points:
\* at the ceiling and just above it; a tight book and one whose ask is 11.4%
\* above its bid.
PriceVolatilities == {Pct(MAX_ACCEPTABLE_PRICE_VOLATILITY_PCT), Pct(MAX_ACCEPTABLE_PRICE_VOLATILITY_PCT) + 1}
BidAskSpreads == {12, 1080}

\* `math.exp(x)` raises OverflowError when x exceeds ln(DBL_MAX) = 709.78...;
\* x is given in hundredths.
ExpOverflows(x_hundredths) == x_hundredths > 70978

\* _compute_spread_acceptance_score with steepness_bps = 1.5:
\* `x = (spread_bps - intolerable_bps) / steepness_bps`, then
\* `1.0 / (1.0 + math.exp(x))`.  Only whether it raises is kept.
spread_acceptance_score_raises(spread_bps) ==
    ExpOverflows(((spread_bps - SPREAD_INTOLERABLE_BPS) * 200) \div 3)

\* _compute_row under asyncio.gather, from the return of get_funding_history
\* to its end: every early return appends one failure; the last path appends
\* the entry, counts the row and reports the progress.
compute_row(row, history, price_volatility, spread_bps) ==
    LET reason ==
            IF history = "raised" THEN "funding history error"
            ELSE IF history = "empty" THEN "no funding history"
            ELSE IF history = "no lookback sample" THEN "insufficient lookback samples"
            ELSE IF history = "one volatility sample" THEN "insufficient volatility samples"
            ELSE IF price_volatility > Pct(MAX_ACCEPTABLE_PRICE_VOLATILITY_PCT)
                 THEN "price volatility too high"
            ELSE ""
    IN  /\ runner.pc = "rows"
        /\ row \in runner.rows
        /\ IF reason # ""
           THEN /\ failures' = failures \cup {[symbol |-> row, reason |-> reason]}
                /\ runner' = [runner EXCEPT !.rows = @ \ {row}]
                /\ UNCHANGED <<job, raw_entries>>
           ELSE /\ raw_entries' = raw_entries \cup
                       {[symbol |-> row, price_volatility_24h_pct |-> price_volatility,
                         left_bid_ask_spread_bps |-> spread_bps,
                         right_bid_ask_spread_bps |-> spread_bps]}
                /\ progress_callback(RowProgress(runner.completed_rows + 1, runner.total_rows))
                /\ runner' = [runner EXCEPT !.rows = @ \ {row}, !.completed_rows = @ + 1]
                /\ UNCHANGED failures
        /\ UNCHANGED <<polled, prediction, orchVars, bookVars, streamVars, marketVars, cacheVars, pureVars, adminVars>>

\* After the gather: every entry is scored; then the response is built,
\* cached, and the last callback made.  An exception of the scoring leaves
\* the service and is caught by _runner's `except Exception`.
prediction_snapshot_return ==
    /\ runner.pc = "rows"
    /\ runner.rows = {}
    /\ IF \E entry \in raw_entries :
              \/ spread_acceptance_score_raises(entry.left_bid_ask_spread_bps)
              \/ spread_acceptance_score_raises(entry.right_bid_ask_spread_bps)
       THEN /\ prediction' = [NoPrediction EXCEPT !.status = "raised"]
            /\ set_prediction_job_state(Some("failed"), Some(Pct(100)), Some("math range error"), None)
            /\ runner' = [runner EXCEPT !.pc = "finished"]
       ELSE /\ prediction' = [status |-> "returned", entries |-> raw_entries, failures |-> failures]
            /\ progress_callback(Pct(100))
            /\ runner' = [runner EXCEPT !.pc = "return"]
    /\ UNCHANGED <<polled, raw_entries, failures, orchVars, bookVars, streamVars, marketVars, cacheVars, pureVars, adminVars>>

\* _runner after the service returned.
runner_completed ==
    /\ runner.pc = "return"
    /\ set_prediction_job_state(Some("completed"), Some(Pct(100)), None, Some("response"))
    /\ runner' = [runner EXCEPT !.pc = "finished"]
    /\ UNCHANGED <<polled, batchVars, orchVars, bookVars, streamVars, marketVars, cacheVars, pureVars, adminVars>>

\* _runner's `except Exception`: the service raised while it loaded the
\* snapshot or sampled the books.
runner_failed ==
    /\ runner.pc \in {"snapshot", "sampling"}
    /\ set_prediction_job_state(Some("failed"), Some(Pct(100)), Some("error"), None)
    /\ runner' = [runner EXCEPT !.pc = "finished"]
    /\ UNCHANGED <<polled, batchVars, orchVars, bookVars, streamVars, marketVars, cacheVars, pureVars, adminVars>>

\* GET /funding-prediction/jobs/{job_id} for the job, once it exists.
get_funding_prediction_job ==
    /\ job # None
    /\ polled' = job
    /\ UNCHANGED <<job, runner, batchVars, orchVars, bookVars, streamVars, marketVars, cacheVars, pureVars, adminVars>>

InitPrediction == OrchestrationIdle /\ InitServices

NextPrediction ==
    \/ create_funding_prediction_job
    \/ runner_start
    \/ \E cached \in BOOLEAN, eligible_rows \in 0..MaxRows :
           prediction_snapshot_begin(cached, eligible_rows)
    \/ sample_average_bid_ask_spreads
    \/ \E row \in 1..MaxRows, history \in Histories,
          price_volatility \in PriceVolatilities, spread_bps \in BidAskSpreads :
           compute_row(row, history, price_volatility, spread_bps)
    \/ prediction_snapshot_return
    \/ runner_completed
    \/ runner_failed
    \/ get_funding_prediction_job

SpecPrediction == InitPrediction /\ [][NextPrediction]_vars

\* ------------------------------------------------------------ volume filter

\* Day volumes in dollars a venue reports, volume thresholds a request asks
\* for.
Volumes == {0, 500000, 1000000}
VolumeThresholds == {0 - 1, 0, 1000000, 1200000, 1600000}

RowsToFilter ==
    [day_notional_volume : {None} \cup {Some(v) : v \in Volumes},
     right : {None} \cup {Some([volume_usd |-> v]) : v \in {None} \cup {Some(w) : w \in Volumes}},
     volume_threshold : VolumeThresholds]

passes_volume_left_only(row, volume_cutoff) ==
    \/ volume_cutoff <= 0
    \/ ValueOr(row.day_notional_volume, 0) >= volume_cutoff

\* _passes_volume, the same in get_funding_prediction_snapshot and in
\* get_arbitrage_snapshot.
passes_volume(row, volume_cutoff) ==
    LET left_volume == ValueOr(row.day_notional_volume, 0)
        right_volume == IF row.right = None THEN None ELSE row.right[1].volume_usd
    IN  \/ volume_cutoff <= 0
        \/ left_volume + ValueOr(right_volume, 0) >= volume_cutoff

\* `volume_cutoff = max(volume_threshold, 0.0)` and the filter, applied to one
\* row of the snapshot by either of the two services.
filter_row(service) ==
    /\ fn_output = None
    /\ fn_input.volume_threshold \in VolumeThresholds
    /\ fn_output' = Some([service |-> service,
                          passes  |-> passes_volume(fn_input,
                                         IF fn_input.volume_threshold > 0
                                         THEN fn_input.volume_threshold ELSE 0)])
    /\ UNCHANGED <<fn_input, orchVars, bookVars, streamVars, marketVars, cacheVars, jobVars, batchVars, adminVars>>

InitVolumeFilter ==
    /\ OrchestrationIdle
    /\ InitBook /\ InitStream /\ InitMarket /\ InitCache /\ InitJobs /\ InitBatch /\ InitUsers
    /\ fn_input \in RowsToFilter
    /\ fn_output = None

NextVolumeFilter == \E service \in {"prediction", "arbitrage"} : filter_row(service)

SpecVolumeFilter == InitVolumeFilter /\ [][NextVolumeFilter]_vars

\* ---------------------------------------------------- admin user endpoints

Usernames == {"admin", "trader", "alice"}

\* `settings.admin_registration_secret`
AdminRegistrationSecret == "test-admin-secret"

\* Values of the client-secret header, None when the request has none.  The
\* last holds a byte above 0x7f, which the framework decodes as latin-1.
NonAsciiHeaders == {"s<e9>cret"}
SecretHeaders == {None, Some(""), Some("wrong-secret"), Some(AdminRegistrationSecret)}
                     \cup {Some(h) : h \in NonAsciiHeaders}

NoUser ==
    [exists |-> FALSE, is_admin |-> FALSE, password |-> "", failed_attempts |-> 0, locked |-> FALSE]

\* get_current_admin for a caller whose token is valid: the status it
\* raises, 0 when it returns the user.
get_current_admin(caller) == IF users[caller].is_admin THEN 0 ELSE 403

\* verify_admin_registration_secret: the status it ends the request with, 0
\* when it returns.  hmac.compare_digest raises TypeError for a str with
\* non-ASCII characters, which the framework answers with 500.
verify_admin_registration_secret(header) ==
    IF header = None \/ header = Some("") THEN 403
    ELSE IF header[1] \in NonAsciiHeaders THEN 500
    ELSE IF header[1] # AdminRegistrationSecret THEN 403
    ELSE 0

\* The response recorded for a request.
Responded(endpoint, caller, header, status_code) ==
    admin_response' = [endpoint |-> endpoint, caller |-> caller, header |-> header,
                       status_code |-> status_code]

\* POST /admin/users
create_user(caller, header, username) ==
    LET denied == IF get_current_admin(caller) # 0 THEN get_current_admin(caller)
                  ELSE verify_admin_registration_secret(header)
    IN  /\ users[caller].exists
        /\ IF denied # 0
           THEN Responded("create_user", caller, header, denied) /\ users' = users
           ELSE IF users[username].exists
           THEN Responded("create_user", caller, header, 409) /\ users' = users
           ELSE /\ Responded("create_user", caller, header, 200)
                /\ users' = [users EXCEPT ![username] =
                                 [NoUser EXCEPT !.exists = TRUE, !.password = "given"]]
        /\ UNCHANGED <<orchVars, bookVars, streamVars, marketVars, cacheVars, jobVars, batchVars, pureVars>>

\* GET /admin/users
list_users(caller) ==
    /\ users[caller].exists
    /\ Responded("list_users", caller, None,
                 IF get_current_admin(caller) # 0 THEN get_current_admin(caller) ELSE 200)
    /\ UNCHANGED <<users, orchVars, bookVars, streamVars, marketVars, cacheVars, jobVars, batchVars, pureVars>>

\* POST /admin/users/{user_id}/reset-password
reset_user_password(caller, header, username) ==
    LET denied == IF get_current_admin(caller) # 0 THEN get_current_admin(caller)
                  ELSE verify_admin_registration_secret(header)
    IN  /\ users[caller].exists
        /\ IF denied # 0
           THEN Responded("reset_user_password", caller, header, denied) /\ users' = users
           ELSE IF ~users[username].exists
           THEN Responded("reset_user_password", caller, header, 404) /\ users' = users
           ELSE /\ Responded("reset_user_password", caller, header, 200)
                /\ users' = [users EXCEPT ![username].password = "temporary",
                                          ![username].failed_attempts = 0,
                                          ![username].locked = FALSE]
        /\ UNCHANGED <<orchVars, bookVars, streamVars, marketVars, cacheVars, jobVars, batchVars, pureVars>>

\* The users of the tests' fixture; the trader may have failed logins on
\* record.
InitAdmin ==
    /\ OrchestrationIdle
    /\ InitBook /\ InitStream /\ InitMarket /\ InitCache /\ InitJobs /\ InitBatch /\ InitPure
    /\ \E failed_attempts \in {0, 3}, locked \in BOOLEAN :
           users = [u \in Usernames |->
                       IF u = "admin"
                       THEN [NoUser EXCEPT !.exists = TRUE, !.is_admin = TRUE, !.password = "given"]
                       ELSE IF u = "trader"
                       THEN [NoUser EXCEPT !.exists = TRUE, !.password = "given",
                                           !.failed_attempts = failed_attempts, !.locked = locked]
                       ELSE NoUser]
    /\ admin_response = None

NextAdmin ==
    \/ \E caller \in Usernames, header \in SecretHeaders, username \in Usernames :
           create_user(caller, header, username)
    \/ \E caller \in Usernames : list_users(caller)
    \/ \E caller \in Usernames, header \in SecretHeaders, username \in Usernames :
           reset_user_password(caller, header, username)

SpecAdmin == InitAdmin /\ [][NextAdmin]_vars

\* --------------------------------------------------- funding-rate averages

PREDICTION_HALF_LIFE_HOURS == 16

\* Hourly rates of a funding point, None when the venue has none for the
\* hour; hours between two points.  The rates are multiples of 64 and the
\* gaps multiples of the half-life, so that every average over up to four
\* points is an integer.
MaxPoints == 3       \* points of a funding history
Rates == {None, Some(0 - 64), Some(0), Some(64)}
Gaps == {0, PREDICTION_HALF_LIFE_HOURS, 2 * PREDICTION_HALF_LIFE_HOURS}

\* The datasets get_funding_history may return: up to MaxPoints points in
\* time order, of which the loop reads one series.
Datasets ==
    UNION {[series : {"left", "right", "spread"},
            gaps : [1..n -> Gaps],
            rates : [1..n -> Rates]] : n \in 1..MaxPoints}

\* Four times `0.5 ** (hours_delta / PREDICTION_HALF_LIFE_HOURS)`.
DecayQuarters(hours_delta) == 4 \div (2 ^ (hours_delta \div PREDICTION_HALF_LIFE_HOURS))

\* Python's `a or b` on floats: b when a is None or 0.0.
FloatOr(a, b) == IF a = None \/ a = Some(0) THEN b ELSE a[1]

\* One round of the loop for a point that has the series' rate:
\* `ewma = point.x if last_time is None else
\*      point.x * (1 - decay) + (ewma or point.x) * decay`.
ewma_update(ewma, last_time, rate, time) ==
    IF last_time = None
    THEN rate
    ELSE LET hours_delta == IF time - last_time[1] > 0 THEN time - last_time[1] ELSE 0
             decay == DecayQuarters(hours_delta)
         IN  (rate * (4 - decay) + FloatOr(ewma, rate) * decay) \div 4

NoAverage == [index |-> 0, ewma |-> None, last_time |-> None, time |-> 0, count |-> 0]

\* The next point of the dataset goes through the loop of _compute_row.
ewma_point ==
    /\ fn_output # None
    /\ fn_output.index < Len(fn_input.rates)
    /\ LET index == fn_output.index + 1
           time == fn_output.time + fn_input.gaps[index]
           rate == fn_input.rates[index]
       IN  fn_output' =
               IF rate = None
               THEN [fn_output EXCEPT !.index = index, !.time = time]
               ELSE [index |-> index,
                     ewma |-> Some(ewma_update(fn_output.ewma, fn_output.last_time, rate[1], time)),
                     last_time |-> Some(time),
                     time |-> time,
                     count |-> fn_output.count + 1]
    /\ UNCHANGED <<fn_input, orchVars, bookVars, streamVars, marketVars, cacheVars, jobVars, batchVars, adminVars>>

InitAverages ==
    /\ OrchestrationIdle
    /\ InitBook /\ InitStream /\ InitMarket /\ InitCache /\ InitJobs /\ InitBatch /\ InitUsers
    /\ fn_input \in Datasets
    /\ fn_output = NoAverage

NextAverages == ewma_point

SpecAverages == InitAverages /\ [][NextAverages]_vars

\* ================================================================ claims

\* Legs of p's open that a venue accepted.
AcceptedLegs(p) == {l \in Legs : \E o \in venue_open : o.pos = p /\ o.leg = l /\ o.placed}

\* Rows of p's committed OrderLog that belong to leg l.
LegRows(p, l) == {i \in 1..Len(order_logs[p]) : order_logs[p][i].leg = l}

\* C1: once a position's status is closed or failed, no step changes it.
C1_TerminalStatusIsFinal ==
    [][\A p \in Positions :
          pos[p].status \in {"closed", "failed"} => pos'[p].status = pos[p].status]_vars

\* C2: a manual close of a position that is already closed answers
\* "position inactive" and changes neither the position row, nor the
\* OrderLog, nor the orders sent to the venues.
C2_SecondCloseIsNoOp ==
    [][\A p \in Positions :
          (pos[p].status = "closed" /\ close_position(p)) =>
              /\ close_resp'[p].status = "position inactive"
              /\ pos'[p] = pos[p]
              /\ order_logs' = order_logs
              /\ venue_close' = venue_close]_vars

\* C3: the step that completes the open flow commits pending when both
\* legs were accepted by their venues, partially_filled when exactly one
\* was, failed when none was.
C3_OpenCommitsStatusFromLegs ==
    [][\A p \in Positions :
          (open_pc[p] = "placing" /\ open_pc'[p] = "done") =>
              pos'[p].status =
                  (IF Cardinality(AcceptedLegs(p)) = 2 THEN "pending"
                   ELSE IF Cardinality(AcceptedLegs(p)) = 1 THEN "partially_filled"
                   ELSE "failed")]_vars

C3_Witness ==
    \E p \in Positions :
        /\ open_pc[p] = "done"
        /\ Cardinality(AcceptedLegs(p)) = 1
        /\ pos[p].status = "partially_filled"

\* C4: while the legs are being placed every leg that has returned has
\* logged exactly one row, and a completed open has exactly two committed
\* OrderLog rows, one per leg: accepted for a leg its venue accepted,
\* failed with the raised error string for a leg that raised.
C4_OneOrderLogPerLeg ==
    \A p \in Positions :
        /\ open_pc[p] = "placing" =>
              Len(session_logs[p]) = Cardinality({l \in Legs : open_ok[p][l] # "none"})
        /\ open_pc[p] = "done" =>
              /\ Len(order_logs[p]) = 2
              /\ \A l \in Legs :
                    /\ Cardinality(LegRows(p, l)) = 1
                    /\ \A i \in LegRows(p, l) :
                          IF l \in AcceptedLegs(p)
                          THEN order_logs[p][i].status = "accepted"
                          ELSE /\ order_logs[p][i].status = "failed"
                               /\ \A o \in venue_open :
                                     (o.pos = p /\ o.leg = l) =>
                                         order_logs[p][i].error = o.error

C4_Witness ==
    \E p \in Positions :
        /\ open_pc[p] = "done"
        /\ Len(order_logs[p]) = 2
        /\ \E i, j \in 1..Len(order_logs[p]) :
              /\ order_logs[p][i].status = "accepted"
              /\ order_logs[p][j].status = "failed"
              /\ order_logs[p][j].error = "rejected"

\* C5: in every committed state a pending position has both legs accepted,
\* a partially_filled one exactly one, a failed one none.
C5_StatusMatchesAcceptedLegs ==
    \A p \in Positions :
        /\ pos[p].status = "pending" => Cardinality(AcceptedLegs(p)) = 2
        /\ pos[p].status = "partially_filled" => Cardinality(AcceptedLegs(p)) = 1
        /\ pos[p].status = "failed" => Cardinality(AcceptedLegs(p)) = 0

\* Entries of guard g's order list whose placement failed.
FailedLegs(g) == {i \in 1..Len(close_orders[g]) : ~close_results[g][i].ok}

\* C6: when a close flow ends after placing its legs and some leg failed,
\* it returns closed = False with one "venue: error" reason per failed leg
\* and leaves the position as it was.
C6_FailedLegIsReported ==
    [][\A g \in Guards :
          (guard_pc[g] = "placing" /\ guard_pc'[g] # "placing" /\ FailedLegs(g) # {}) =>
              /\ pos' = pos
              /\ ~close_result'.closed
              /\ Len(close_result'.failed_reasons) = Cardinality(FailedLegs(g))
              /\ \A i \in FailedLegs(g) :
                    \E j \in 1..Len(close_result'.failed_reasons) :
                        close_result'.failed_reasons[j] =
                            close_orders[g][i].venue \o ": " \o close_results[g][i].err]_vars

\* No venue has a non-zero open size together with the price its unwind
\* order would be placed at.
NoLegToSubmit(snap) ==
    /\ snap.lighter_position = 0 \/ snap.lighter_quote.ask = 0
    /\ \/ snap.grvt_size = 0
       \/ snap.grvt_size > 0 /\ snap.grvt_quote.ask = 0
       \/ snap.grvt_size < 0 /\ snap.grvt_quote.bid = 0

\* C7: a close flow whose venue snapshot offers no leg to submit returns
\* the failure "no positions or price", sends no order and leaves the
\* position and the OrderLog unchanged.
C7_NoLegsReportsFailure ==
    [][\A g \in Guards :
          (/\ guard_pc[g] = "closing"
           /\ guard_pc'[g] # "closing"
           /\ close_seen' # None
           /\ NoLegToSubmit(close_seen'[1])) =>
              /\ close_result' = [guard |-> g, failed_reasons |-> <<"no positions or price">>,
                                  closed |-> FALSE]
              /\ venue_close' = venue_close
              /\ pos' = pos
              /\ order_logs' = order_logs]_vars

C7_Witness ==
    /\ close_seen # None
    /\ NoLegToSubmit(close_seen[1])
    /\ close_seen[1].grvt_size # 0
    /\ close_result.failed_reasons = <<"no positions or price">>
    /\ venue_close = {}

\* The side that reduces a position of the given direction (+1 long, -1 short).
OppositeSide(direction) == IF direction > 0 THEN "sell" ELSE "buy"

\* C8: every order the close flow is about to place is reduce-only, on the
\* side opposite to the venue's open position and for its absolute size.
C8_CloseOrdersReduceThePosition ==
    \A g \in Guards :
        (guard_pc[g] = "placing" /\ close_seen # None) =>
            \A i \in 1..Len(close_orders[g]) :
                LET o == close_orders[g][i]
                    snap == close_seen[1] IN
                /\ o.reduce_only
                /\ o.venue = "lighter" =>
                      /\ o.side = OppositeSide(snap.lighter_sign)
                      /\ o.size = snap.lighter_position
                /\ o.venue = "grvt" =>
                      /\ o.side = OppositeSide(snap.grvt_size)
                      /\ o.size = Abs(snap.grvt_size)

\* C9: in the close flow a sell leg is priced at the venue's best bid and a
\* buy leg at the venue's best ask.
C9_ClosePriceIsBidForSell ==
    \A g \in Guards :
        (guard_pc[g] = "placing" /\ close_seen # None) =>
            \A i \in 1..Len(close_orders[g]) :
                LET o == close_orders[g][i]
                    quote == IF o.venue = "lighter" THEN close_seen[1].lighter_quote
                             ELSE close_seen[1].grvt_quote IN
                o.price = (IF o.side = "sell" THEN quote.bid ELSE quote.ask)

\* C10: a position is closed only after reduce-only unwind orders were
\* submitted for it, and a manual close of an active position leaves it exiting.
C10_ManualCloseRunsUnwind ==
    [][\A p \in Positions :
          (pos[p].status \in ActiveStatuses /\ close_position(p)) =>
              /\ pos'[p].status = "exiting"
              /\ \E o \in venue_close' : o.pos = p /\ o.reduce_only]_vars

\* The edges of the position state machine: open creates the row pending and
\* completes it as pending, partially_filled or failed; an active position
\* moves to exiting; an exiting position moves to closed.
StateMachineEdges ==
    {<<"none", "pending">>, <<"pending", "partially_filled">>, <<"pending", "failed">>,
     <<"exiting", "closed">>}
        \cup {<<a, "exiting">> : a \in ActiveStatuses}

\* C11: a position's status changes only along the edges of the state
\* machine; closed is entered from exiting only.
C11_StatusFollowsStateMachine ==
    [][\A p \in Positions :
          pos'[p].status # pos[p].status =>
              <<pos[p].status, pos'[p].status>> \in StateMachineEdges]_vars

TerminalStatuses == {"closed", "failed"}

\* C12: for a position that is closed or failed no guard places a venue
\* order or changes the status, and the auto-close guard cancels a pending
\* auto_close task it finds on it with the reason "position inactive".
C12_GuardsLeaveTerminalPositionsAlone ==
    [][\A g \in Guards :
          pos[close_pos[g]].status \in TerminalStatuses =>
              /\ \A i \in 1..2 : ~place_order(g, i)
              /\ close_finish(g) => pos' = pos
              /\ (g = "auto_close" /\ execute_auto_close_task(close_pos[g])
                    /\ risk_tasks[close_pos[g]].auto_close.status = "pending") =>
                    /\ risk_tasks'[close_pos[g]].auto_close.status = "canceled"
                    /\ risk_tasks'[close_pos[g]].auto_close.trigger_reason = "position inactive"]_vars

\* C15: an open that failed on missing credentials has persisted no
\* ArbPosition, no RiskTask and no OrderLog, and sent no order.
C15_MissingCredentialsPersistNothing ==
    \A p \in Positions :
        open_pc[p] = "aborted" =>
            /\ pos[p].status = "none"
            /\ risk_tasks[p].liquidation_guard.status = "none"
            /\ order_logs[p] = <<>>
            /\ \A o \in venue_open : o.pos # p

\* C16: every leg attempt of the close flow appends one OrderLog row to the
\* position, and no step changes a row that exists.
C16_CloseLegsAreLogged ==
    [][/\ \A g \in Guards, i \in 1..2 :
             place_order(g, i) =>
                 Len(order_logs'[close_pos[g]]) = Len(order_logs[close_pos[g]]) + 1
       /\ \A p \in Positions :
             /\ Len(order_logs'[p]) >= Len(order_logs[p])
             /\ SubSeq(order_logs'[p], 1, Len(order_logs[p])) = order_logs[p]]_vars

\* C20: no guard loop ever terminates on an error raised while it works on
\* a task or position.
C20_GuardLoopsSurviveErrors ==
    \A g \in Guards : guard_pc[g] # "dead"

\* C14: the position and its requested liquidation_guard task are committed
\* in one step: no state has the position without the task when the request
\* enabled the guard, the task is enabled and carries the requested
\* threshold, or 50 when none was requested, and it is created pending.
C14_PositionAndGuardTaskInOneCommit ==
    /\ [](\A p \in Positions :
            (pos[p].status # "none" /\ open_req[p].liquidation_guard_enabled) =>
                /\ risk_tasks[p].liquidation_guard.status # "none"
                /\ risk_tasks[p].liquidation_guard.enabled
                /\ risk_tasks[p].liquidation_guard.threshold_pct =
                      (IF open_req[p].liquidation_guard_threshold_pct = None
                       THEN Some(50)
                       ELSE open_req[p].liquidation_guard_threshold_pct))
    /\ [][\A p \in Positions :
            (pos[p].status = "none" /\ pos'[p].status # "none"
                /\ open_req[p].liquidation_guard_enabled) =>
                risk_tasks'[p].liquidation_guard.status = "pending"]_vars

C14_Witness ==
    \E p \in Positions :
        /\ pos[p].status = "pending"
        /\ open_req[p].liquidation_guard_enabled
        /\ open_req[p].liquidation_guard_threshold_pct = None
        /\ risk_tasks[p].liquidation_guard.status = "pending"
        /\ risk_tasks[p].liquidation_guard.threshold_pct = Some(50)

RiskTaskTypes == {"auto_close", "liquidation_guard"}

\* C13: a RiskTask that has become triggered, canceled or failed is never
\* written again, so its status leaves pending once and never returns to it.
C13_RiskTaskLeavesPendingOnce ==
    [][\A p \in Positions, type \in RiskTaskTypes :
          risk_tasks[p][type].status \in {"triggered", "canceled", "failed"} =>
              risk_tasks'[p][type] = risk_tasks[p][type]]_vars

C13_Witness ==
    \E p \in Positions :
        /\ risk_tasks[p].auto_close.status = "failed"
        /\ risk_tasks[p].liquidation_guard.status = "triggered"
        /\ guard_pc["auto_close"] = "sleeping"
        /\ guard_pc["liquidation_guard"] = "sleeping"

\* The threshold the claim gives a task: its own, or 50 when unset.
ClaimedThresholdPct(task) ==
    IF task.threshold_pct = None THEN 50 ELSE task.threshold_pct[1]

\* |sum of both venues' unrealized PnL| / notional x 100 >= threshold,
\* without the division.
RatioReachesThreshold(seen) ==
    Abs(seen.report.lighter_unrealized + seen.report.grvt_unrealized) * 100
        >= ClaimedThresholdPct(seen.task) * seen.position.notional

\* The percentage |PnL| / notional x 100 in hundredths, written with two decimals.
TwoDecimals(h) ==
    ToString(h \div 100) \o "." \o ToString((h % 100) \div 10) \o ToString(h % 10)

\* C17: for a pending, enabled liquidation_guard task on an active position
\* with notional > 0 the guard calls the close flow exactly when
\* |PnL sum| / notional x 100 >= threshold (50 when unset), and a task that
\* became triggered carries a reason with both percentages in two decimals.
C17_LiquidationGuardTriggersAtThreshold ==
    (guard_seen # None /\ guard_seen[1].guard = "liquidation_guard") =>
        LET seen == guard_seen[1] IN
        /\ (/\ seen.task.status = "pending"
            /\ seen.task.enabled
            /\ seen.status \in ActiveStatuses
            /\ seen.position.notional > 0) =>
               (seen.invoked <=> RatioReachesThreshold(seen))
        /\ \A p \in Positions :
              risk_tasks[p].liquidation_guard.status = "triggered" =>
                  risk_tasks[p].liquidation_guard.trigger_reason =
                      "unrealized pnl ratio "
                          \o TwoDecimals((Abs(seen.report.lighter_unrealized
                                              + seen.report.grvt_unrealized) * 10000)
                                         \div seen.position.notional)
                          \o "% reached threshold "
                          \o TwoDecimals(ClaimedThresholdPct(seen.task) * 100) \o "%"

\* The claim's sign of a leg: -1 for buy, +1 for sell.
ClaimedSign(side) == IF side = "buy" THEN 0 - 1 ELSE 1

\* Minute of the hour at model time t lies in the hour's last five minutes.
InLastFiveMinutes(t) == Minute(t) \in 55..59

\* Whenever the guard calls the close flow both rates are there and
\* notional x (sign(left) x leftRate + sign(right) x rightRate) <= 0.
FundingClosesOnlyWhenNotPositive ==
    (/\ guard_seen # None
     /\ guard_seen[1].guard = "funding_settlement"
     /\ guard_seen[1].invoked) =>
        LET seen == guard_seen[1] IN
        /\ seen.rates # None
        /\ seen.rates[1].left_rate # None
        /\ seen.rates[1].right_rate # None
        /\ seen.position.notional
               * (ClaimedSign(seen.position.left_side) * seen.rates[1].left_rate[1]
                  + ClaimedSign(seen.position.right_side) * seen.rates[1].right_rate[1])
               <= 0

\* C18: the funding settlement guard calls the close flow only in the last
\* five minutes of a clock hour, only when both rates are there, and only
\* when notional x (sign(left) x leftRate + sign(right) x rightRate) / 100 <= 0.
C18_FundingGuardClosesOnlyInWindow ==
    /\ FundingClosesOnlyWhenNotPositive
    /\ (/\ guard_seen # None
        /\ guard_seen[1].guard = "funding_settlement"
        /\ guard_seen[1].invoked) => InLastFiveMinutes(guard_seen[1].at)

\* The auto-close guard is inside the close flow of close_pos["auto_close"].
AutoCloseAttempting == guard_pc["auto_close"] \in {"closing", "placing"}

\* C19: the auto-close guard enters the close flow only for an enabled,
\* pending task whose execute_at has passed, and when the attempt is over
\* the task is triggered or failed, so that it is never attempted again.
C19_AutoCloseAttemptsOnce ==
    [][/\ (~AutoCloseAttempting /\ AutoCloseAttempting') =>
             LET task == risk_tasks[close_pos'["auto_close"]].auto_close IN
             /\ task.enabled
             /\ task.status = "pending"
             /\ task.execute_at # None
             /\ task.execute_at[1] <= now
       /\ (AutoCloseAttempting /\ ~AutoCloseAttempting') =>
             risk_tasks'[close_pos["auto_close"]].auto_close.status
                 \in {"triggered", "failed"}]_vars

\* Guard g has submitted an order of its close flow to a venue and has not
\* yet committed what the flow returned.
SubmittedNotCommitted(g) ==
    \E i \in 1..Len(close_results[g]) :
        close_results[g][i].done /\ close_results[g][i].ok

\* C21: a guard stopped by shutdown is never one that has submitted unwind
\* orders without having committed the position status and RiskTask update
\* that follow from them.
C21_ShutdownBetweenIterations ==
    \A g \in Guards : guard_pc[g] = "cancelled" => ~SubmittedNotCommitted(g)

\* C22: with the guards running and no manual close, a position that has
\* entered exiting (every submitted unwind leg was accepted) eventually
\* becomes closed.
C22_ExitingEventuallyClosed ==
    \A p \in Positions : (pos[p].status = "exiting") ~> (pos[p].status = "closed")

\* The step handles an incremental order-book message.
IsBookUpdate == ws_message' # None /\ ws_message'[1].type = "update/order_book"

\* The message lists a level at this price for the side.
Listed(new_orders, price) == \E i \in 1..Len(new_orders) : new_orders[i].price = price

\* The size the message gives the price where it lists it last.
ListedSize(new_orders, price) ==
    LET i == CHOOSE j \in 1..Len(new_orders) :
                /\ new_orders[j].price = price
                /\ \A k \in (j + 1)..Len(new_orders) : new_orders[k].price # price
    IN new_orders[i].size

Holds(levels, price, size) == \E i \in 1..Len(levels) : levels[i] = Level(price, size)

\* The levels a side must hold after the message: each listed price with
\* its listed size, each unlisted level as it was, none with size <= 0.
MergedLevels(old, new_orders) ==
    {Level(new_orders[i].price, ListedSize(new_orders, new_orders[i].price)) :
        i \in {j \in 1..Len(new_orders) : ListedSize(new_orders, new_orders[j].price) > 0}}
    \cup {old[i] : i \in {j \in 1..Len(old) :
                            ~Listed(new_orders, old[j].price) /\ old[j].size > 0}}

LevelsOf(levels) == {levels[i] : i \in 1..Len(levels)}

\* e does not come before the last level of the side in the side's order.
NotBeforeLast(levels, e, side) ==
    LET last == parse_decimal(levels[Len(levels)].price)
        key == parse_decimal(e.price)
    IN IF side = "bids" THEN key <= last ELSE key >= last

\* The bids of the example: snapshot [(100,5)], then (100,0) and (99,2).
ExampleUpdate == <<Level("100", 0), Level("99", 2)>>

ExampleHolds ==
    (/\ order_book_state.bids = <<Level("100", 5)>>
     /\ ws_message'[1].order_book.bids = Some(ExampleUpdate)) =>
        emitted'[1].bids = <<[price |-> 99, size |-> 2, total |-> 2]>>

\* C23 as stated: an incremental message replaces the size of each listed
\* level that exists, inserts listed levels that do not exist when their
\* size is positive, removes every level whose size becomes <= 0 and
\* leaves all unlisted levels unchanged.
C23_UpdateMergesLevels ==
    [][IsBookUpdate =>
         /\ \A side \in BookSides :
               LET new_orders == ws_message'[1].order_book[side] IN
               IF new_orders = None
               THEN order_book_state'[side] = order_book_state[side]
               ELSE LevelsOf(order_book_state'[side])
                        = MergedLevels(order_book_state[side], new_orders[1])
         /\ ExampleHolds]_vars

\* C23, amended: the same, and the side is then cut to its best 3 x depth
\* levels, so that a merged level may be missing only from a full side that
\* it does not come before the end of; a side the message does not list
\* is left as it was.
C23_UpdateMergesLevelsThenCuts ==
    [][IsBookUpdate =>
         /\ \A side \in BookSides :
               LET new_orders == ws_message'[1].order_book[side]
                   new == order_book_state'[side]
               IN
               IF new_orders = None
               THEN new = order_book_state[side]
               ELSE LET merged == MergedLevels(order_book_state[side], new_orders[1]) IN
                    /\ LevelsOf(new) \subseteq merged
                    /\ Len(new) = Cardinality(LevelsOf(new))
                    /\ Len(new) <= 3 * depth
                    /\ \A e \in merged \ LevelsOf(new) :
                          Len(new) = 3 * depth /\ NotBeforeLast(new, e, side)
         /\ ExampleHolds]_vars

\* The example of the claim has happened.
C23_Witness ==
    /\ ws_message # None
    /\ ws_message[1].type = "update/order_book"
    /\ ws_message[1].order_book.bids = Some(ExampleUpdate)
    /\ order_book_state.bids = <<Level("99", 2)>>
    /\ emitted # None
    /\ emitted[1].bids = <<[price |-> 99, size |-> 2, total |-> 2]>>

\* One side of an emitted book: ordered by price, positive prices and
\* sizes, at most depth levels, totals the running sum of sizes from the top.
SideWellFormed(levels, descending) ==
    /\ Len(levels) <= depth
    /\ \A i \in 1..Len(levels) :
          /\ levels[i].price > 0
          /\ levels[i].size > 0
          /\ levels[i].total = levels[i].size + (IF i = 1 THEN 0 ELSE levels[i - 1].total)
    /\ \A i \in 1..(Len(levels) - 1) :
          IF descending THEN levels[i].price >= levels[i + 1].price
                        ELSE levels[i].price <= levels[i + 1].price

EmittedBookWellFormed ==
    emitted # None =>
        /\ SideWellFormed(emitted[1].bids, TRUE)
        /\ SideWellFormed(emitted[1].asks, FALSE)

\* C24: every emitted book is ordered, positive, at most depth levels deep
\* and totalled from the top, and after an incremental message each side
\* of the retained state holds at most 3 x depth levels.
C24_EmittedBookWellFormedStateCapped ==
    /\ EmittedBookWellFormed
    /\ (ws_message # None /\ ws_message[1].type = "update/order_book") =>
          \A side \in BookSides : Len(order_book_state[side]) <= 3 * depth

\* min(2^(k-1), 30) seconds, in half seconds.
RECURSIVE ClaimedDelay(_)
ClaimedDelay(k) ==
    IF k = 1 THEN 2
    ELSE IF ClaimedDelay(k - 1) * 2 < 60 THEN ClaimedDelay(k - 1) * 2 ELSE 60

\* The k-th consecutive reconnect attempt of a venue's stream came after
\* min(2^(k-1), 30) seconds.
DelayAsClaimed(venue) ==
    attempts[venue] > 0 => slept[venue] = ClaimedDelay(attempts[venue])

\* C25: for each venue's order-book stream the delay before the k-th
\* consecutive reconnect attempt is min(2^(k-1), 30) seconds, counted anew
\* after every received book message.
C25_ReconnectBackoff == \A venue \in Venues : DelayAsClaimed(venue)

\* The Lighter stream alone keeps to the claimed delays.
LighterReconnectBackoff == DelayAsClaimed("lighter")

\* The secondary markets whose normalized base symbol is that of `left`.
SameBase(left, secondary_markets) ==
    {j \in 1..Len(secondary_markets) :
        secondary_markets[j].base_symbol = left.base_symbol}

\* `row` is the row of the primary market `left`: it carries the matching
\* secondary market, or null when the secondary venue has none.
RowOfMarket(row, left, secondary_markets) ==
    /\ row.left_symbol = left.symbol
    /\ (row.right = None) <=> (SameBase(left, secondary_markets) = {})
    /\ row.right # None =>
           \E j \in SameBase(left, secondary_markets) :
               /\ row.right[1].symbol = secondary_markets[j].symbol
               /\ row.right[1].volume_usd = secondary_markets[j].volume_usd

\* C26: get_perp_snapshot returns exactly one row per primary-venue market;
\* a row's right payload is the secondary market with the same normalized
\* base symbol, or null when there is none, so unmatched primary rows are
\* never dropped.
C26_OneRowPerPrimaryMarket ==
    perp_result # None =>
        LET rows == perp_result[1].rows
            primary_markets == perp_result[1].primary_markets
            n == Len(primary_markets)
        IN  /\ Len(rows) = n
            /\ \E order \in {f \in [1..n -> 1..n] : \A a, b \in 1..n : f[a] = f[b] => a = b} :
                   \A i \in 1..n :
                       RowOfMarket(rows[i], primary_markets[order[i]],
                                   perp_result[1].secondary_markets)

\* A snapshot with a matched and an unmatched primary market, the secondary
\* venue listing markets.
C26_Witness ==
    /\ perp_result # None
    /\ perp_result[1].secondary_markets # <<>>
    /\ \E i, j \in 1..Len(perp_result[1].rows) :
           /\ perp_result[1].rows[i].right = None
           /\ perp_result[1].rows[j].right # None

\* Exactly one of the two venues of the latest snapshot is GRVT.
OneVenueIsGrvt ==
    /\ perp_result # None
    /\ (perp_result[1].primary = "grvt") # (perp_result[1].secondary = "grvt")

\* The base symbols of the markets the other venue returned.
OtherVenueSymbols ==
    LET markets == IF perp_result[1].primary = "grvt"
                   THEN perp_result[1].secondary_markets
                   ELSE perp_result[1].primary_markets
    IN  {Upper(markets[i].base_symbol) : i \in 1..Len(markets)}

\* The instruments GRVT listed to the latest snapshot.
GrvtListed ==
    LET outcome == IF perp_result[1].primary = "grvt"
                   THEN perp_result[1].primary_outcome
                   ELSE perp_result[1].secondary_outcome
    IN  IF outcome.listing = None THEN {}
        ELSE {outcome.listing[1][i] : i \in 1..Len(outcome.listing[1])}

\* C27: when exactly one of the two venues is GRVT, the other venue is
\* fetched first and GRVT ticker requests are issued only for instruments
\* whose base is in the other venue's symbol set, whatever the first fetch
\* returned; the full GRVT universe is never enumerated.
C27_GrvtTickersOnlyForCandidates ==
    OneVenueIsGrvt =>
        /\ \A i, j \in 1..Len(venue_requests) :
               venue_requests[i].venue = "grvt" /\ venue_requests[j].venue # "grvt"
                   => j < i
        /\ \A i \in 1..Len(venue_requests) :
               venue_requests[i].path = "ticker" =>
                   \E inst \in GrvtListed :
                       /\ inst.instrument = venue_requests[i].instrument
                       /\ Upper(inst.base) \in OtherVenueSymbols

\* The venue whose market listing failed in the latest snapshot while the
\* other venue's did not: "primary", "secondary" or "none".
FailedSide ==
    IF perp_result = None THEN "none"
    ELSE IF perp_result[1].primary_outcome.listing = None
            /\ perp_result[1].secondary_outcome.listing # None THEN "primary"
    ELSE IF perp_result[1].secondary_outcome.listing = None
            /\ perp_result[1].primary_outcome.listing # None THEN "secondary"
    ELSE "none"

\* source of the ApiError a venue's fetch reports.
ErrorSource(venue) == IF venue = "lighter" THEN "Lighter API" ELSE "GRVT API"

\* Every market the primary venue returned is the left side of a row.
PrimaryDataReturned ==
    \A i \in 1..Len(perp_result[1].primary_markets) :
        \E k \in 1..Len(perp_result[1].rows) :
            perp_result[1].rows[k].left_symbol = perp_result[1].primary_markets[i].symbol

\* Every market the secondary venue returned is the right side of a row.
SecondaryDataReturned ==
    \A i \in 1..Len(perp_result[1].secondary_markets) :
        \E k \in 1..Len(perp_result[1].rows) :
            /\ perp_result[1].rows[k].right # None
            /\ perp_result[1].rows[k].right[1].symbol
                   = perp_result[1].secondary_markets[i].symbol

\* C30: when one venue's market fetch fails, get_perp_snapshot returns the
\* data of the venue that succeeded and an errors list with a
\* {source, message} entry for the failed venue, whichever venue failed.
C30_OneVenueFailureKeepsTheOther ==
    /\ FailedSide = "primary" =>
           /\ SecondaryDataReturned
           /\ \E e \in 1..Len(perp_result[1].errors) :
                  perp_result[1].errors[e].source = ErrorSource(perp_result[1].primary)
    /\ FailedSide = "secondary" =>
           /\ PrimaryDataReturned
           /\ \E e \in 1..Len(perp_result[1].errors) :
                  perp_result[1].errors[e].source = ErrorSource(perp_result[1].secondary)

\* What holds of the code: the failed venue is reported, and the primary
\* venue's markets are returned when it is the secondary that failed.
FailedVenueReported ==
    /\ FailedSide = "primary" =>
           \E e \in 1..Len(perp_result[1].errors) :
               perp_result[1].errors[e].source = ErrorSource(perp_result[1].primary)
    /\ FailedSide = "secondary" =>
           /\ PrimaryDataReturned
           /\ \E e \in 1..Len(perp_result[1].errors) :
                  perp_result[1].errors[e].source = ErrorSource(perp_result[1].secondary)

\* This step is a get_perp_snapshot call for the pair the previous call
\* served, made within the cache TTL of that call's return.
SecondCallWithinTtl ==
    /\ perp_served # None
    /\ perp_served' # None
    /\ <<perp_result', perp_served', venue_requests'>>
           # <<perp_result, perp_served, venue_requests>>
    /\ perp_served'[1].primary = perp_served[1].primary
    /\ perp_served'[1].secondary = perp_served[1].secondary
    /\ (perp_served'[1].at - perp_served[1].at) * TickSeconds < CACHE_TTL_SECONDS

\* C28: a second get_perp_snapshot call for the same (primary, secondary)
\* within the TTL returns the cached snapshot and issues no venue request.
C28_SecondCallServedFromCache ==
    [][SecondCallWithinTtl =>
           /\ venue_requests' = <<>>
           /\ perp_result'[1].rows = perp_result[1].rows]_vars

\* The TTL of the two response caches, in seconds: 10 minutes.
ClaimedTtlSeconds == 10 * 60

\* The entry is younger than the TTL at the current clock reading.
YoungerThanTtl(entry) ==
    entry # None /\ (now - entry[1].stored_at) * TickSeconds < ClaimedTtlSeconds

\* Caller c makes a call in this step.
CallStep(c) == calls[c].pc # "computing" /\ calls'[c] # calls[c]

\* Caller c's computation ends with a response in this step.
ComputedStep(c) == calls[c].pc = "computing" /\ calls'[c].pc = "returned"

\* C29: a non-forced call made less than the TTL after the entry for its
\* key was stored returns that stored response without recomputation; a
\* force_refresh call ignores the entry, recomputes and overwrites it, so
\* that a later non-forced call within the TTL returns the refreshed
\* response; an entry older than the TTL is never returned.
C29_CacheServesFreshEntries ==
    [][\A c \in Callers :
          LET entry == response_cache[calls'[c].kind][calls'[c].key] IN
          /\ CallStep(c) /\ ~calls'[c].force_refresh /\ YoungerThanTtl(entry) =>
                 /\ calls'[c].pc = "returned"
                 /\ calls'[c].returned = Some(entry[1].response)
                 /\ ~calls'[c].recomputed
                 /\ computed' = computed
                 /\ response_cache' = response_cache
          /\ CallStep(c) /\ (calls'[c].force_refresh \/ ~YoungerThanTtl(entry)) =>
                 /\ calls'[c].pc = "computing"
                 /\ calls'[c].recomputed
          /\ ComputedStep(c) =>
                 /\ computed' # computed
                 /\ response_cache'[calls[c].kind][calls[c].key]
                        = Some([stored_at |-> now', response |-> calls'[c].returned[1]])]_vars

\* A forced refresh has overwritten a fresh entry, and a later non-forced
\* call for the same key was served the refreshed response from the cache.
C29_Witness ==
    \E forced, later \in Callers :
        /\ calls[forced].pc = "returned" /\ calls[forced].force_refresh
        /\ calls[forced].recomputed
        /\ calls[later].pc = "returned" /\ ~calls[later].force_refresh
        /\ ~calls[later].recomputed
        /\ calls[later].kind = calls[forced].kind /\ calls[later].key = calls[forced].key
        /\ calls[later].returned = calls[forced].returned
        /\ response_cache[calls[later].kind][calls[later].key]
               = Some([stored_at |-> now, response |-> calls[later].returned[1]])

\* Guard g is inside the close flow for p and p's row is still active: the
\* status check is behind it and exiting is not yet committed.
InCloseFlow(g, p) ==
    /\ guard_pc[g] \in {"closing", "placing"}
    /\ close_pos[g] = p
    /\ pos[p].status \in ActiveStatuses

\* C35: while one guard is inside the close flow for an active position,
\* another guard that visits the same position can pass the status check
\* and enter the close flow as well; nothing excludes the second flow, and
\* both submit reduce-only orders for the position.
C35_CloseFlowsNotExclusive ==
    \A p \in Positions :
        /\ (/\ InCloseFlow("liquidation_guard", p)
            /\ guard_pc["auto_close"] = "iterating"
            /\ p \in guard_queue["auto_close"]
            /\ risk_tasks[p].auto_close.status = "pending")
           => ENABLED (/\ execute_auto_close_task(p)
                       /\ guard_pc'["auto_close"] = "closing")
        /\ (/\ InCloseFlow("auto_close", p)
            /\ guard_pc["liquidation_guard"] = "iterating"
            /\ p \in guard_queue["liquidation_guard"])
           => ENABLED (/\ liquidation_guard_evaluate(p)
                       /\ guard_pc'["liquidation_guard"] = "closing")

\* Both guards have submitted an accepted unwind order for the same
\* position, which is still active.
C35_Witness ==
    \E p \in Positions :
        /\ pos[p].status \in ActiveStatuses
        /\ \A g \in {"auto_close", "liquidation_guard"} :
               /\ guard_pc[g] = "placing"
               /\ close_pos[g] = p
               /\ \E i \in 1..Len(close_results[g]) :
                      close_results[g][i].done /\ close_results[g][i].ok

\* C36: once a position is exiting no guard starts unwinding it again: the
\* funding-settlement and liquidation guards select only pending,
\* partially_filled or hedged positions, and the auto-close guard visiting
\* an exiting position does not enter the close flow for it.
C36_ExitingPositionsAreLeftAlone ==
    [][/\ \A g \in {"funding_settlement", "liquidation_guard"} :
              guard_pc[g] = "sleeping" /\ guard_pc'[g] = "iterating" =>
                  \A p \in guard_queue'[g] : pos[p].status \in ActiveStatuses
       /\ \A p \in Positions :
              (/\ pos[p].status = "exiting"
               /\ guard_pc["auto_close"] = "iterating"
               /\ p \in guard_queue["auto_close"] \ guard_queue'["auto_close"])
              => guard_pc'["auto_close"] # "closing"]_vars

\* What holds of the code: the selections of the two polling guards.
PollingGuardsSelectActive ==
    [][\A g \in {"funding_settlement", "liquidation_guard"} :
           guard_pc[g] = "sleeping" /\ guard_pc'[g] = "iterating" =>
               \A p \in guard_queue'[g] : pos[p].status \in ActiveStatuses]_vars

\* C37: a liquidation_guard task leaves pending only to triggered, and only
\* at the return of a close flow of the liquidation guard in which every
\* submitted leg succeeded; after a failed close flow, or when the position
\* is no longer active, it stays pending, is never failed or canceled, and
\* every poll of the guard takes up each pending task of an active position.
C37_LiquidationTaskOnlyTriggers ==
    [][\A p \in Positions :
          LET g == "liquidation_guard"
              before == risk_tasks[p].liquidation_guard
              after == risk_tasks'[p].liquidation_guard
          IN  /\ after.status \notin {"failed", "canceled"}
              /\ before.status = "pending" /\ after.status # "pending" =>
                     /\ after.status = "triggered"
                     /\ guard_pc[g] = "placing" /\ close_pos[g] = p
                     /\ Len(close_results[g]) > 0
                     /\ \A i \in 1..Len(close_results[g]) :
                            close_results[g][i].done /\ close_results[g][i].ok
              /\ (/\ before.status = "pending"
                  /\ pos[p].status \notin ActiveStatuses) => after = before
              /\ (/\ guard_pc[g] = "sleeping" /\ guard_pc'[g] = "iterating"
                  /\ before.status = "pending" /\ before.enabled
                  /\ pos[p].status \in ActiveStatuses) => p \in guard_queue'[g]]_vars

\* C38: a position opened with auto_close_after_ms set has, from the commit
\* that creates it, a pending enabled auto_close task whose execute_at is
\* the opening time plus auto_close_after_ms.
C38_AutoCloseTaskCreatedWithPosition ==
    \A p \in Positions :
        (pos[p].status # "none" /\ open_req[p].auto_close_after_ms # None) =>
            /\ risk_tasks[p].auto_close.status # "none"
            /\ risk_tasks[p].auto_close.execute_at # None
            /\ open_pc[p] = "created" =>
                   /\ risk_tasks[p].auto_close.status = "pending"
                   /\ risk_tasks[p].auto_close.enabled
                   /\ risk_tasks[p].auto_close.execute_at[1] * TickSeconds * 1000
                          = pos[p].updated_at[1] * TickSeconds * 1000
                            + open_req[p].auto_close_after_ms[1]

\* C39: a funding-prediction job's status only moves pending -> running ->
\* completed or failed and the last two are final; its result is present
\* exactly when it is completed and its error exactly when it is failed;
\* every response a reader gets carries a progress within [0, 100] that is
\* not below the progress of the reader's previous response.
C39_JobStatusAndProgress ==
    [][/\ (job # None /\ job' # job) =>
              /\ job' # None
              /\ job'[1].status # job[1].status =>
                     <<job[1].status, job'[1].status>> \in
                         {<<"pending", "running">>, <<"running", "completed">>,
                          <<"running", "failed">>}
              /\ job[1].status \notin {"completed", "failed"}
       /\ job' # None =>
              /\ (job'[1].result # None) <=> (job'[1].status = "completed")
              /\ (job'[1].error # None) <=> (job'[1].status = "failed")
       /\ polled' # None =>
              /\ polled'[1].progress >= 0
              /\ polled'[1].progress <= Pct(100)
              /\ polled # None => polled'[1].progress >= polled[1].progress]_vars

C39_Witness ==
    /\ polled # None
    /\ job # None
    /\ polled[1].status = "running"
    /\ polled[1].progress = RowProgress(1, 2)
    /\ job[1].status = "completed"
    /\ job[1].progress = Pct(100)

\* The row's symbol is in exactly one of the two lists, a failure with a
\* reason.
SettledOnce(row, entries, failed) ==
    /\ Cardinality({e \in entries : e.symbol = row}) +
       Cardinality({f \in failed : f.symbol = row}) = 1
    /\ \A f \in failed : f.symbol = row => f.reason # ""

\* What _compute_row alone guarantees (holds): once the gather is over every
\* eligible row has appended exactly one entry or one failure, and no entry
\* has a sampled price volatility above the ceiling.
RowsSettleOnce ==
    (runner.pc = "rows" /\ runner.rows = {}) =>
        /\ \A row \in runner.eligible : SettledOnce(row, raw_entries, failures)
        /\ \A e \in raw_entries :
               e.price_volatility_24h_pct <= Pct(MAX_ACCEPTABLE_PRICE_VOLATILITY_PCT)

\* C31: a prediction batch never raises because of one of its symbols; it
\* returns a response in which every eligible symbol is in exactly one of
\* entries or failures (with a reason) and no entry has a sampled price
\* volatility above 10%.
C31_BatchSettlesEverySymbol ==
    /\ prediction.status # "raised"
    /\ prediction.status = "returned" =>
           /\ \A row \in runner.eligible :
                  SettledOnce(row, prediction.entries, prediction.failures)
           /\ \A e \in prediction.entries :
                  e.price_volatility_24h_pct <= Pct(MAX_ACCEPTABLE_PRICE_VOLATILITY_PCT)

\* The row of the claim's example: left-venue volume 1,000,000 and
\* right-venue volume 500,000, filtered with the given threshold.
ExampleRowFiltered(threshold) ==
    /\ fn_output # None
    /\ fn_input = [day_notional_volume |-> Some(1000000),
                   right |-> Some([volume_usd |-> Some(500000)]),
                   volume_threshold |-> threshold]

\* C32 as stated: the example row is excluded at threshold 1,200,000 and
\* included at threshold 1,000,000.
C32_ExampleExcludedAtHigherThreshold ==
    /\ ExampleRowFiltered(1200000) => ~fn_output[1].passes
    /\ ExampleRowFiltered(1000000) => fn_output[1].passes

\* C32 (amended): the filter compares the sum of the two venues' volumes
\* with the threshold: the example row, whose volumes add up to 1,500,000,
\* is included at thresholds 1,200,000 and 1,000,000 and excluded at
\* threshold 1,600,000.
C32_ExampleFilteredByCombinedVolume ==
    /\ ExampleRowFiltered(1200000) => fn_output[1].passes
    /\ ExampleRowFiltered(1000000) => fn_output[1].passes
    /\ ExampleRowFiltered(1600000) => ~fn_output[1].passes

C32_Witness ==
    /\ ExampleRowFiltered(1200000)
    /\ fn_output[1].passes

\* What the admin endpoints do guarantee (holds): a request changes a user
\* record only when its caller is an admin and its header is the secret.
OnlyAuthorisedRequestsChangeUsers ==
    [][users' # users =>
           /\ users[admin_response'.caller].is_admin
           /\ admin_response'.header = Some(AdminRegistrationSecret)]_vars

\* C34: every request of a non-admin to an admin user endpoint is answered
\* 403; every create-user or reset-password request of an admin whose
\* client-secret header is missing or is not the secret is answered 403; in
\* both cases no user record changes.
C34_AdminEndpointsAuthoriseFirst ==
    [][admin_response' # admin_response =>
           LET r == admin_response'
               unauthorised ==
                   \/ ~users[r.caller].is_admin
                   \/ /\ r.endpoint \in {"create_user", "reset_user_password"}
                      /\ r.header # Some(AdminRegistrationSecret)
           IN  unauthorised => (r.status_code = 403 /\ users' = users)]_vars

\* C33: every round of the loop that reads a rate leaves the average at the
\* rate itself when it is the first, and otherwise at
\* rate x (1 - decay) + previous x decay with decay = 0.5^(hours / 16),
\* whatever the previous average, 0 included.
C33_EwmaStep ==
    [][(fn_output' # fn_output /\ fn_output'.count > fn_output.count) =>
           LET rate == fn_input.rates[fn_output'.index][1]
               hours == fn_output'.time - fn_output.last_time[1]
           IN  fn_output'.ewma =
                   IF fn_output.count = 0
                   THEN Some(rate)
                   ELSE Some((rate * (4 - DecayQuarters(hours))
                                 + fn_output.ewma[1] * DecayQuarters(hours)) \div 4)]_vars

\* The same for every previous average other than 0 (holds).
EwmaStepFromNonZero ==
    [][(fn_output' # fn_output /\ fn_output'.count > fn_output.count
            /\ fn_output.count > 0 /\ fn_output.ewma # Some(0)) =>
           LET rate == fn_input.rates[fn_output'.index][1]
               hours == fn_output'.time - fn_output.last_time[1]
           IN  fn_output'.ewma =
                   Some((rate * (4 - DecayQuarters(hours))
                            + fn_output.ewma[1] * DecayQuarters(hours)) \div 4)]_vars

====
